---- MODULE Spec2Model ----
(***************************************************************************)
(* focusmusic: the lookahead tick scheduler (Clock, src/clock.ts) and the  *)
(* Engine operations that drive it (src/engine.ts).                        *)
(*                                                                         *)
(* Time is counted in whole units of 1/280 s.  With that resolution the    *)
(* tick duration 60/bpm/4 is a whole number for every tempo the model      *)
(* uses (30, 60, 100, 120, 140, 200 bpm), and so are the lookahead (0.2 s  *)
(* = 56 units) and the poll interval (25 ms = 7 units): the arithmetic of  *)
(* schedule() is then exact integer arithmetic.  The source computes in    *)
(* IEEE doubles; rounding in elapsed/tickTime + lookahead/tickTime is not  *)
(* modelled.                                                               *)
(***************************************************************************)
EXTENDS Integers, Sequences, FiniteSets, TLC

\* ------------------------------------------------------------- constants

ticksPerBeat == 4
beatsPerBar == 4
barsPerPhrase == 4
lookaheadMs == 200
intervalMs == 25
MinBpm == 60
MaxBpm == 140

duckAmountPerMille == 650   \* duckAmount = 0.65
duckReleaseMs == 120        \* duckRelease = 0.12
attackTimeMs == 3           \* attackTime = 0.003

UnitsPerSecond == 8 * 35
Lookahead == (lookaheadMs * UnitsPerSecond) \div 1000
Interval == (intervalMs * UnitsPerSecond) \div 1000

\* ---------------------------------------------------------------- bounds

MaxCalls == 4         \* calls of the Clock's and the Engine's methods
MaxAdvances == 2      \* advances of the time source
MaxThrows == 1        \* polls that run after a callback has thrown
MaxTriggers == 3      \* calls of triggerSidechain
MaxMods == 1          \* Modulator objects created by new Modulator(..)
MaxAdds == 2          \* Modulator objects created by ModulationBank.add
MaxNodes == 7         \* nodes counted as created, and as cleaned
MaxWall == 3500       \* the host's time, in ms

\* ------------------------------------------------------------ the inputs

\* The listener objects.
Listeners == {1, 2}
\* The runs: the n-th start() creates the closure schedule() and the timer of
\* run n.
Runs == {1, 2}
\* Tempi handed to the constructor (not clamped there) and to setBpm.
CtorBpms == {30, 120}
SetBpmArgs == {30, 100, 200}
\* How far the time source moves between two observations: one poll
\* interval or one lookahead window (a late poll).
Steps == {Interval, Lookahead}

\* The hooks a listener object implements: every hook of ClockListener is
\* optional.  Listener 1 implements all four, listener 2 only onTick and
\* onBeat, listener 3 only onBar and onPhrase, the others all four.
AllHooks == {"onTick", "onBeat", "onBar", "onPhrase"}
\* The MotifLayer object as a listener: it implements onTick and onPhrase.
MotifListener == 9
Hooks(l) ==
  IF l = 2 THEN {"onTick", "onBeat"}
  ELSE IF l = 3 THEN {"onBar", "onPhrase"}
  ELSE IF l = MotifListener THEN {"onTick", "onPhrase"}
  ELSE AllHooks

VARIABLES
  bpm,            \* Clock.bpm
  startTime,      \* Clock.startTime
  currentTick, currentBeat, currentBar, currentPhrase,
  listeners,      \* Clock.listeners: sequence of [id, reg]
  intervalId,     \* Clock.intervalId: 0 = undefined, else index into timers
  timers,         \* one per start(): [active, last] (last = lastScheduledTick)
  now,            \* value the time source returns
  log,            \* the callbacks delivered since the latest start(), in
                  \* delivery order
  passes,         \* number of tick-firing passes since the latest start()
  regs,           \* number of subscribe() calls so far
  stopCalled,     \* stop() was called and start() has not been called since
  lastSetBpm,     \* argument of the latest setBpm() call, 0 if none
  tempoChanged,   \* setBpm() has changed bpm since the latest start()
  regsAtStart,    \* value of regs at the latest start()
  unsubscribed,   \* the listeners unsubscribe() was called with and
                  \* subscribe() has not been called with since
  paused,         \* Engine.paused
  pendingResumes, \* promises of ctx.resume() that have not settled yet
  ctxCalls,       \* the calls issued to the audio context, in order
  settled,        \* the requests to the audio context that have settled,
                  \* each with its outcome
  unhandled,      \* rejections and exceptions that no handler has taken
  engineStopped,  \* Engine.stop() has returned
  timeouts,       \* the pending setTimeout callbacks (all of 2500 ms), in
                  \* the order they were set, which is the order they fire in
  isTransitioning,\* the player's flag: a track change is under way
  layersStopped,  \* stop() was called on the layers of the current track
  retired,        \* the Engines of the earlier tracks, oldest first: is a
                  \* timer of its Clock running, its pending resume
                  \* requests, was it stopped, its layers, its context closed
  edges,          \* the connections of the audio graph: <<from, to>>
  automation,     \* the automation events of sidechainGain.gain, in the
                  \* order of the timeline: [kind, value, time, call]
  triggers,       \* the arguments of the triggerSidechain calls, in order
  mods,           \* the Modulator objects created so far, in order:
                  \* [base, range, speed, offset]
  bank,           \* the ModulationBank: name -> place in mods, 0 if none
  returned,       \* name -> the Modulator the latest add(name, ..) returned
  answer,         \* what the latest call into the modulation returned
  nodeCreated, nodeCleaned, nodeActive,   \* the counts of nodeCounter
  wall,           \* the host's time in ms (the time base of setTimeout)
  stoppedAt,      \* the host's time at the latest stopLayers()
  cleanups,       \* the pending cleanup timeouts of MotifLayer's notes:
                  \* [note, due]
  notes,          \* the MotifLayer: its preset (0: no layer yet), the track
                  \* whose Engine it is registered with, the notes played
  layer,          \* the fields of the MotifLayer that listens to the Clock,
                  \* and what it has done since it was constructed
  swept,          \* the cleanups that ran in the latest step of the host's
                  \* time: the end of the note and the audio time they ran at
  polls,          \* per run: the time of its latest schedule(), and whether
                  \* its polls were never more than the lookahead apart
  state,          \* Engine.state, the MusicState of the current Engine
  isQuitting,     \* the player's flag: handleQuit() has begun
  exited,         \* process.exit(0) was called
  calls,          \* method calls so far
  nAdvances       \* advances of the time source so far

vars == <<bpm, startTime, currentTick, currentBeat, currentBar, currentPhrase,
          listeners, intervalId, timers, now, log, passes, regs,
          stopCalled, lastSetBpm, tempoChanged, regsAtStart, unsubscribed,
          paused, pendingResumes, ctxCalls, settled, unhandled,
          engineStopped, timeouts, isTransitioning, layersStopped, retired,
          edges, automation, triggers, mods, bank, returned, answer,
          nodeCreated, nodeCleaned, nodeActive, wall, stoppedAt, cleanups,
          notes, layer, swept, polls, state, isQuitting, exited,
          calls, nAdvances>>

\* What only start() and setBpm() write.
history == <<tempoChanged, regsAtStart>>

position == <<currentTick, currentBeat, currentBar, currentPhrase>>

\* What the Engine holds besides its Clock.
host == <<settled, unhandled, engineStopped, timeouts>>
\* What the player holds besides the current track's Engine.
player == <<isTransitioning, layersStopped, retired>>
\* The audio graph of the current Engine.
graph == <<edges>>
\* The gain automation of the sidechain stage.
sidechain == <<automation, triggers>>
\* The modulation, the node counter and the notes of the motif layer.
modulation == <<mods, bank, returned, answer>>
counter == <<nodeCreated, nodeCleaned, nodeActive>>
motif == <<wall, stoppedAt, cleanups, notes>>
\* The MotifLayer as a listener of the Clock, and the pace of the polls.
hearing == <<layer, swept, polls>>
\* The MusicState.
music == <<state>>
\* The end of the player.
quit == <<isQuitting, exited>>
library == <<modulation, counter, motif, hearing, music, quit>>
others == <<player, graph, sidechain, library>>
engine == <<paused, pendingResumes, ctxCalls, host, others>>

\* ----------------------------------------------------- pure computations

Max(a, b) == IF a >= b THEN a ELSE b
Min(a, b) == IF a <= b THEN a ELSE b

\* Mutant of Clamp: the bounds of the two comparisons exchanged.
ClampSwapped(b) == Min(MinBpm, Max(MaxBpm, b))

\* setBpm: Math.max(60, Math.min(140, bpm))
Clamp(b) == Max(MinBpm, Min(MaxBpm, b))

\* get tickDuration: 60 / bpm / ticksPerBeat
TickDuration(b) == ((60 * UnitsPerSecond) \div b) \div ticksPerBeat

\* get beatDuration: 60 / bpm
BeatDuration(b) == (60 * UnitsPerSecond) \div b

\* Mutant of BarDuration: the factor beatsPerBar left out.
BarDurationOneBeat(b) == BeatDuration(b)

\* get barDuration: beatDuration * beatsPerBar
BarDuration(b) == BeatDuration(b) * beatsPerBar

\* targetTick = floor(elapsed / tickTime + scheduleAhead / tickTime)
TargetTick(t, start, tickTime) == ((t - start) + Lookahead) \div tickTime

\* Mutant of TickStartTime: the time of the poll instead of the grid time.
TickStartTimeNow(start, tick, tickTime) == now

\* Mutant of TickStartTime: ticks counted from 1.
TickStartTimeOffByOne(start, tick, tickTime) == start + (tick + 1) * tickTime

\* tickStartTime = startTime + tick * tickTime
TickStartTime(start, tick, tickTime) == start + tick * tickTime

BeatOf(tick) == tick \div ticksPerBeat
BarOf(tick) == BeatOf(tick) \div beatsPerBar
PhraseOf(tick) == BarOf(tick) \div barsPerPhrase

\* tickInBeat === 0
BeatDue(tick) == tick % ticksPerBeat = 0
\* Mutant of BarDue: the test of tickInBeat left out.
BarDueAnyTick(tick) == BeatOf(tick) % beatsPerBar = 0

\* tickInBeat === 0 && beatInBar === 0
BarDue(tick) == BeatDue(tick) /\ BeatOf(tick) % beatsPerBar = 0
\* tickInBeat === 0 && beatInBar === 0 && barInPhrase === 0
PhraseDue(tick) == BarDue(tick) /\ BarOf(tick) % barsPerPhrase = 0

\* Mutant of CallPlan: onBeat called before onTick.
CallPlanBeatFirst(tick) ==
  << [kind |-> "onBeat",   due |-> BeatDue(tick),   n |-> BeatOf(tick)],
     [kind |-> "onTick",   due |-> TRUE,            n |-> tick],
     [kind |-> "onBar",    due |-> BarDue(tick),    n |-> BarOf(tick)],
     [kind |-> "onPhrase", due |-> PhraseDue(tick), n |-> PhraseOf(tick)] >>

\* The body of listeners.forEach for one listener: the calls in source order,
\* each with its condition and its argument.
CallPlan(tick) ==
  << [kind |-> "onTick",   due |-> TRUE,            n |-> tick],
     [kind |-> "onBeat",   due |-> BeatDue(tick),   n |-> BeatOf(tick)],
     [kind |-> "onBar",    due |-> BarDue(tick),    n |-> BarOf(tick)],
     [kind |-> "onPhrase", due |-> PhraseDue(tick), n |-> PhraseOf(tick)] >>

RECURSIVE SeqMapCalls(_, _, _, _, _, _, _)
SeqMapCalls(plan, i, sub, slot, tick, ts, ctx) ==
  IF i > Len(plan) THEN <<>>
  ELSE (IF plan[i].due /\ plan[i].kind \in Hooks(sub.id)
        THEN << [l |-> sub.id, reg |-> sub.reg, slot |-> slot,
                 kind |-> plan[i].kind, n |-> plan[i].n, time |-> ts,
                 tick |-> tick, pass |-> ctx.pass, run |-> ctx.run] >>
        ELSE <<>>)
       \o SeqMapCalls(plan, i + 1, sub, slot, tick, ts, ctx)

\* l.onTick?.(..); l.onBeat?.(..); l.onBar?.(..); l.onPhrase?.(..) for the
\* listener in position slot.
ListenerCalls(lst, slot, tick, ts, ctx) ==
  SeqMapCalls(CallPlan(tick), 1, lst[slot], slot, tick, ts, ctx)

\* Mutant of FireTick: the list walked from its end.
RECURSIVE FireTickReversed(_, _, _, _, _)
FireTickReversed(lst, slot, tick, ts, ctx) ==
  IF slot > Len(lst) THEN <<>>
  ELSE FireTickReversed(lst, slot + 1, tick, ts, ctx)
       \o ListenerCalls(lst, slot, tick, ts, ctx)

\* this.listeners.forEach(l => ...): positions slot..Len(lst) in order.
RECURSIVE FireTick(_, _, _, _, _)
FireTick(lst, slot, tick, ts, ctx) ==
  IF slot > Len(lst) THEN <<>>
  ELSE ListenerCalls(lst, slot, tick, ts, ctx)
       \o FireTick(lst, slot + 1, tick, ts, ctx)

\* Mutant of FireRange: the loop starts at lastScheduledTick, not after it.
RECURSIVE FireRangeFromLast(_, _, _, _, _, _, _)
FireRangeFromLast(from, target, start, tickTime, lst, pass0, run) ==
  IF from > target THEN <<>>
  ELSE IF from = target
  THEN FireTick(lst, 1, Max(0, from - 1),
                TickStartTime(start, Max(0, from - 1), tickTime),
                [pass |-> pass0 + 1, run |-> run])
  ELSE LET mid == (from + target) \div 2
       IN FireRangeFromLast(from, mid, start, tickTime, lst, pass0, run)
          \o FireRangeFromLast(mid + 1, target, start, tickTime, lst,
                               pass0 + (mid - from) + 1, run)

\* for (tick = lastScheduledTick + 1; tick <= targetTick; tick++): the calls
\* of ticks from..target in order; pass0 is the number of passes made before.
\* (The range is halved rather than walked, which keeps the evaluation
\* shallow; the sequence is that of the loop.)
RECURSIVE FireRange(_, _, _, _, _, _, _)
FireRange(from, target, start, tickTime, lst, pass0, run) ==
  IF from > target THEN <<>>
  ELSE IF from = target
  THEN FireTick(lst, 1, from, TickStartTime(start, from, tickTime),
                [pass |-> pass0 + 1, run |-> run])
  ELSE LET mid == (from + target) \div 2
       IN FireRange(from, mid, start, tickTime, lst, pass0, run)
          \o FireRange(mid + 1, target, start, tickTime, lst,
                       pass0 + (mid - from) + 1, run)

\* One execution of the closure schedule() of run `run`, whose
\* lastScheduledTick is `last`, with the Clock's start time `start`.
Schedule(run, last, start) ==
  LET tickTime == TickDuration(bpm)
      target == TargetTick(now, start, tickTime)
      fired == Max(0, target - last)
      pass0 == IF last = -1 THEN 0 ELSE passes
  IN /\ log' = (IF last = -1 THEN <<>> ELSE log)
                  \o FireRange(last + 1, target, start, tickTime, listeners,
                               pass0, run)
     /\ passes' = pass0 + fired
     /\ timers' = [i \in 1..Max(run, Len(timers)) |->
                     IF i = run THEN [active |-> TRUE, last |-> target]
                     ELSE timers[i]]
     /\ IF fired > 0
        THEN /\ currentTick' = target
             /\ currentBeat' = BeatOf(target)
             /\ currentBar' = BarOf(target)
             /\ currentPhrase' = PhraseOf(target)
        ELSE /\ currentTick' = (IF last = -1 THEN 0 ELSE currentTick)
             /\ currentBeat' = (IF last = -1 THEN 0 ELSE currentBeat)
             /\ currentBar' = (IF last = -1 THEN 0 ELSE currentBar)
             /\ currentPhrase' = (IF last = -1 THEN 0 ELSE currentPhrase)

\* ------------------------------------------------------- the audio graph

\* const delays = [0.03, 0.05, 0.08, 0.13]: the taps of the reverb.
Taps == 1..4

\* createReverb(): the DelayNode and the GainNode of each tap; each tap
\* reverbSend -> delay -> gain -> filter; then filter -> feedback ->
\* reverbSend and filter -> reverbReturn.
TapDelay == <<"delay1", "delay2", "delay3", "delay4">>
TapGain == <<"gain1", "gain2", "gain3", "gain4">>
ReverbEdges ==
  UNION {{<<"reverbSend", TapDelay[i]>>,
          <<TapDelay[i], TapGain[i]>>,
          <<TapGain[i], "filter">>} : i \in Taps}
  \cup {<<"filter", "feedback">>, <<"feedback", "reverbSend">>,
        <<"filter", "reverbReturn">>}

\* Mutant of Routing: the reverb return connected past the sidechain gain.
RoutingReverbPastSidechain ==
  {<<"mainBus", "sidechainGain">>, <<"mainBus", "reverbSend">>,
   <<"reverbReturn", "compressor">>, <<"sidechainGain", "compressor">>,
   <<"compressor", "master">>, <<"master", "destination">>}

\* The constructor's routing: the six connect calls.
Routing ==
  {<<"mainBus", "sidechainGain">>, <<"mainBus", "reverbSend">>,
   <<"reverbReturn", "sidechainGain">>, <<"sidechainGain", "compressor">>,
   <<"compressor", "master">>, <<"master", "destination">>}

\* The graph new Engine(config) builds.
ConstructorEdges == ReverbEdges \cup Routing

\* getMainBus() and getDrumBus()
GetMainBus == "mainBus"
GetDrumBus == "compressor"

\* The nodes the layers connect to the buses: the output gains of the pad,
\* texture, arp and beat layers.
LayerNodes == {"pad", "texture", "arp", "beat"}

\* The nodes to which a path of at least one connection leads from one of
\* the nodes in from, in the graph es without the nodes in without.
RECURSIVE Beyond(_, _, _)
Beyond(from, es, without) ==
  LET more == {e[2] : e \in {f \in es : f[1] \in from}} \ without
  IN IF more \subseteq from THEN more
     ELSE more \cup Beyond(from \cup more, es, without)

\* ------------------------------------------------------- the sidechain

\* The times triggerSidechain is called with, in ms; gains are in
\* thousandths.
TriggerTimes == {0, 10, 60, 200}
FullGain == 1000

\* An AudioParam inserts an automation event into its timeline by time,
\* after the events that have the same time.  Nothing in the Engine cancels
\* scheduled values.
Inserted(tl, ev) ==
  LET k == Cardinality({i \in 1..Len(tl) : tl[i].time <= ev.time})
  IN SubSeq(tl, 1, k) \o <<ev>> \o SubSeq(tl, k + 1, Len(tl))

\* The timeline after triggerSidechain(time): setValueAtTime(1, time),
\* linearRampToValueAtTime(duckAmount, time + attackTime),
\* linearRampToValueAtTime(1, time + attackTime + duckRelease).
Triggered(tl, time, call) ==
  Inserted(
    Inserted(
      Inserted(tl, [kind |-> "set", value |-> FullGain, time |-> time,
                    call |-> call]),
      [kind |-> "ramp", value |-> duckAmountPerMille,
       time |-> time + attackTimeMs, call |-> call]),
    [kind |-> "ramp", value |-> FullGain,
     time |-> time + attackTimeMs + duckReleaseMs, call |-> call])

\* The number of events of the timeline at or before time x.
Passed(tl, x) == Cardinality({i \in 1..Len(tl) : tl[i].time <= x})

\* The value of the parameter at time x as a fraction <<numerator,
\* denominator>>: the default value before the first event; towards a ramp
\* event, the line from the event before it; else the value of the latest
\* event.
GainAt(tl, x) ==
  LET k == Passed(tl, x)
  IN IF k = 0 THEN <<FullGain, 1>>
     ELSE IF k = Len(tl) \/ tl[k + 1].kind = "set" THEN <<tl[k].value, 1>>
     ELSE <<tl[k].value * (tl[k + 1].time - tl[k].time)
              + (tl[k + 1].value - tl[k].value) * (x - tl[k].time),
            tl[k + 1].time - tl[k].time>>

\* The calls whose events determine the value at time x.
Governing(tl, x) ==
  LET k == Passed(tl, x)
  IN IF k = 0 THEN {}
     ELSE IF k = Len(tl) \/ tl[k + 1].kind = "set" THEN {tl[k].call}
     ELSE {tl[k].call, tl[k + 1].call}

\* ------------------------------------------------------- the modulation

\* The names the bank is asked for.
Names == {"filterMain", "intensity"}

\* The coherent noise field, sampled at whole positions: values between -1
\* and 1, counted in units of 1/NoiseScale; the field repeats after its
\* last position.
NoiseScale == 2
NoiseField == <<0, 2, 1, -1, -2>>
Noise(x) == NoiseField[(x % Len(NoiseField)) + 1]

\* The per-instance phase offsets, the configurations and the times of the
\* queries.
Offsets == {0, 3}
Bases == {100, 200}
Ranges == {0, 50}
Speeds == {1, 2}
QueryTimes == {0, 1, 2}
\* The configurations Modulators are created with.
Configs ==
  {[base |-> 100, range |-> 50, speed |-> 1],
   [base |-> 200, range |-> 0, speed |-> 2]}

\* The noise sample of Modulator m at time t: the field at t * speed plus
\* the phase offset.
Sample(m, t) == Noise(t * m.speed + m.offset)

\* Mutant of GetValue: the sample taken as twice the range.
GetValueTwice(m, t) ==
  <<m.base * NoiseScale + 2 * m.range * Sample(m, t), NoiseScale>>

\* Modulator.getValue(t): base + range * sample, as a fraction.
GetValue(m, t) ==
  <<m.base * NoiseScale + m.range * Sample(m, t), NoiseScale>>

\* Modulator.getNormalized(t): the same sample rescaled to [0, 1].
GetNormalized(m, t) == <<Sample(m, t) + NoiseScale, 2 * NoiseScale>>

\* No call into the modulation yet.
NoAnswer ==
  [op |-> "none", name |-> "", mod |-> 0, found |-> FALSE, num |-> 0,
   den |-> 1, threw |-> FALSE]

\* ------------------------------------------------------ the motif layer

\* MOTIF_PRESETS (Chimes, Glass Keys, Soft Bell): noteLength in tenths,
\* release in ms.
MotifPresets ==
  <<[noteLength |-> 16, release |-> 600],
    [noteLength |-> 13, release |-> 500],
    [noteLength |-> 19, release |-> 700]>>

\* Clock.tickDuration in microseconds.
TickMicros(b) == 15000000 \div b

\* playNote: cleanupDelay = (noteDuration + release + 0.1) * 1000 with
\* noteDuration = tickDuration * stepTicks * noteLength and stepTicks = 2,
\* in whole ms.
CleanupDelay(b, p) ==
  (2 * TickMicros(b) * MotifPresets[p].noteLength) \div 10000
  + MotifPresets[p].release + 100

\* The three nodes of the k-th note: oscA, oscB, noteGain.
OscA == <<"oscA1", "oscA2", "oscA3">>
OscB == <<"oscB1", "oscB2", "oscB3">>
NoteGain == <<"noteGain1", "noteGain2", "noteGain3">>
NoteNodes(k) == {OscA[k], OscB[k], NoteGain[k]}

\* No MotifLayer yet.
NoMotif == [preset |-> 0, track |-> 0, played |-> 0]

\* The delay of the timeouts of Engine.stop() and stopLayers(), in ms.
StopDelay == 2500

\* ------------------------------------- the motif layer as a listener

sectionLength == 4
stepTicks == 2

\* null in a pattern.
Null == -1

\* MOTIF_PATTERNS: the note offset of each of the 32 steps.
MOTIF_PATTERNS ==
  << <<0, Null, 2, Null, 4, Null, 5, Null, 7, Null, 5, Null, 4, Null, 2, Null,
       0, Null, 2, Null, 4, Null, 7, Null, 5, Null, 4, Null, 2, Null, Null,
       Null>>,
     <<0, Null, 3, Null, 5, Null, 3, Null, 0, Null, Null, Null, 2, Null, 4,
       Null, 6, Null, 4, Null, 2, Null, Null, Null, 0, Null, 3, Null, 5, Null,
       Null, Null>>,
     <<0, Null, 2, Null, 4, Null, 2, Null, 5, Null, 4, Null, 2, Null, 0, Null,
       2, Null, 4, Null, 7, Null, 5, Null, 4, Null, 2, Null, 0, Null, Null,
       Null>>,
     <<0, Null, Null, Null, 4, Null, Null, Null, 2, Null, Null, Null, 5, Null,
       Null, Null, 0, Null, Null, Null, 4, Null, Null, Null, 7, Null, Null,
       Null, 2, Null, Null, Null>> >>

\* What Math.random() and the density modulator decide during one
\* schedule(): the outcome of Math.random() < 0.6, the pattern selectPattern
\* draws, and whether densityMod.getNormalized(time) is at least 0.35 (the
\* modulator is glacial: one outcome for the notes of one schedule()).  Of
\* the patterns the first and the last are drawn.
Draws == [active : BOOLEAN, pattern : {1, Len(MOTIF_PATTERNS)}, dense : BOOLEAN]

\* No MotifLayer object yet.  Besides the fields of the class the record
\* keeps what the layer has done: the notes played, the re-rolls made, the
\* Clock's tick of the latest re-roll, the first step evaluated since then
\* (tick and index, -1: none), and the notes of the latest schedule() (the
\* time each was played with).
NoLayer ==
  [made |-> FALSE, preset |-> 0, isActive |-> FALSE, pattern |-> 0,
   patternStartTick |-> 0, lastTick |-> 0, phraseCount |-> 0, played |-> 0,
   rolls |-> 0, boundary |-> -1, firstTick |-> -1, firstStep |-> -1,
   fresh |-> <<>>]

\* new MotifLayer(engine): the preset, the pattern and isActive are drawn.
Constructed(p, d) ==
  [NoLayer EXCEPT !.made = TRUE, !.preset = p, !.isActive = d.active,
                  !.pattern = d.pattern]

\* Math.floor((tick - patternStartTick) / stepTicks) % pattern.length
PatternIndex(l, tick) ==
  ((tick - l.patternStartTick) \div stepTicks) % Len(MOTIF_PATTERNS[l.pattern])

\* playNote(noteOffset, time) as far as the layer's record goes.
PlayNote(l, time) ==
  [l EXCEPT !.played = @ + 1, !.fresh = Append(@, time)]

\* The step of the pattern onTick looks at, noted if it is the first since
\* the latest re-roll.
Evaluated(l, tick) ==
  IF l.firstTick = -1
  THEN [l EXCEPT !.firstTick = tick, !.firstStep = PatternIndex(l, tick)]
  ELSE l

\* MotifLayer.onTick(tick, time)
OnTick(l, tick, time, d) ==
  LET seen == [l EXCEPT !.lastTick = tick]
  IN IF ~seen.isActive \/ seen.pattern = 0 THEN seen
     ELSE IF tick < seen.patternStartTick \/ tick % stepTicks # 0 THEN seen
     ELSE IF MOTIF_PATTERNS[seen.pattern][PatternIndex(seen, tick) + 1] = Null
     THEN Evaluated(seen, tick)
     ELSE IF ~d.dense THEN Evaluated(seen, tick)
     ELSE PlayNote(Evaluated(seen, tick), time)

\* Mutant of OnPhrase: the test of phraseCount % sectionLength left out.
OnPhraseEveryPhrase(l, tick, d) ==
  IF d.active
  THEN [l EXCEPT !.phraseCount = @ + 1, !.isActive = TRUE,
                 !.pattern = d.pattern, !.patternStartTick = l.lastTick,
                 !.rolls = @ + 1, !.boundary = tick, !.firstTick = -1,
                 !.firstStep = -1]
  ELSE [l EXCEPT !.phraseCount = @ + 1, !.isActive = FALSE,
                 !.rolls = @ + 1, !.boundary = tick]

\* MotifLayer.onPhrase(_phrase, _time); tick is the Clock's tick of the call.
OnPhrase(l, tick, d) ==
  IF (l.phraseCount + 1) % sectionLength # 0
  THEN [l EXCEPT !.phraseCount = @ + 1]
  ELSE IF d.active
  THEN [l EXCEPT !.phraseCount = @ + 1, !.isActive = TRUE,
                 !.pattern = d.pattern, !.patternStartTick = l.lastTick,
                 !.rolls = @ + 1, !.boundary = tick, !.firstTick = -1,
                 !.firstStep = -1]
  ELSE [l EXCEPT !.phraseCount = @ + 1, !.isActive = FALSE,
                 !.rolls = @ + 1, !.boundary = tick]

\* One callback of the Clock, as the layer takes it.
Hear(l, c, d) ==
  IF c.l # MotifListener THEN l
  ELSE IF c.kind = "onTick" THEN OnTick(l, c.tick, c.time, d)
  ELSE IF c.kind = "onPhrase" THEN OnPhrase(l, c.tick, d)
  ELSE l

\* The callbacks lo..hi of one schedule(), taken in order.  (The range is
\* halved, and the layer after the first half is bound by a quantifier so
\* that it is evaluated once: this keeps the evaluation shallow.)
RECURSIVE Heard(_, _, _, _, _)
Heard(l, cs, lo, hi, d) ==
  IF lo > hi THEN l
  ELSE IF lo = hi THEN Hear(l, cs[lo], d)
  ELSE CHOOSE r \in {Heard(x, cs, ((lo + hi) \div 2) + 1, hi, d) :
                       x \in {Heard(l, cs, lo, (lo + hi) \div 2, d)}} : TRUE

\* The layer after the callbacks cs of one schedule().
After(l, cs, d) ==
  IF l.made
  THEN CHOOSE r \in {Heard(x, s, 1, Len(s), d) :
                       x \in {[l EXCEPT !.fresh = <<>>]}, s \in {cs}} : TRUE
  ELSE l

\* Milliseconds of the host in units of the time source, and back.
Units(ms) == (ms * UnitsPerSecond) \div 1000
Millis(u) == (u * 1000) \div UnitsPerSecond

\* playNote: the last event of the note's gain, at time + noteDuration +
\* release, in units of the time source.
NoteEnd(b, p, time) ==
  time + (TickDuration(b) * stepTicks * MotifPresets[p].noteLength) \div 10
       + Units(MotifPresets[p].release)

\* The cleanup timeouts playNote sets for the notes played at the given
\* times, at the host's time w.
Timeouts(b, p, times, w, from) ==
  {[note |-> from + i, due |-> w + CleanupDelay(b, p),
    end |-> NoteEnd(b, p, times[i])] : i \in 1..Len(times)}

\* -------------------------------------------------------- the MusicState

\* initMusicState: the curated scales and the roots.
goodScales == <<"minorPentatonic", "dorian", "phrygian", "aeolian">>
roots == <<38, 40, 41, 43, 45>>

\* initMusicState() with the root and the scale name Math.random() selects.
\* scale and notes are what SCALES[scaleName] and getScaleNotes(root, scale,
\* 4) return: they stand for themselves here.
InitMusicState(root, scaleName) ==
  [root |-> root, scale |-> <<"SCALES", scaleName>>, scaleName |-> scaleName,
   notes |-> <<"getScaleNotes", root, scaleName>>, kitName |-> "",
   synthName |-> ""]

\* The names the layers hand to setKitName and setSynthName.
KitNames == {"Deep"}
SynthNames == {"Glass"}

\* ------------------------------------------------------------------ Init

\* new Engine(config) with the MusicState st, and in it new Clock(bpm,
\* getTime): bpm stored as given.
EngineWith(st) ==
  /\ state = st
  /\ bpm \in CtorBpms
  /\ startTime = 0
  /\ currentTick = 0 /\ currentBeat = 0 /\ currentBar = 0 /\ currentPhrase = 0
  /\ listeners = <<>>
  /\ intervalId = 0
  /\ timers = <<>>
  /\ now = 0
  /\ log = <<>>
  /\ passes = 0
  /\ regs = 0
  /\ stopCalled = FALSE
  /\ lastSetBpm = 0
  /\ tempoChanged = FALSE
  /\ regsAtStart = 0
  /\ unsubscribed = {}
  /\ paused = FALSE
  /\ pendingResumes = 0
  /\ ctxCalls = <<>>
  /\ settled = <<>>
  /\ unhandled = 0
  /\ engineStopped = FALSE
  /\ timeouts = <<>>
  /\ isTransitioning = FALSE
  /\ layersStopped = FALSE
  /\ retired = <<>>
  /\ edges = ConstructorEdges
  /\ automation = <<>>
  /\ triggers = <<>>
  /\ mods = <<>>
  /\ bank = [n \in Names |-> 0]
  /\ returned = [n \in Names |-> 0]
  /\ answer = NoAnswer
  /\ nodeCreated = 0 /\ nodeCleaned = 0 /\ nodeActive = 0
  /\ wall = 0
  /\ stoppedAt = 0
  /\ cleanups = {}
  /\ notes = NoMotif
  /\ layer = NoLayer
  /\ swept = {}
  /\ polls = <<>>
  /\ isQuitting = FALSE
  /\ exited = FALSE
  /\ calls = 0
  /\ nAdvances = 0

\* The Engine after construction, with the first root and scale of the
\* tables for its MusicState.
Init == EngineWith(InitMusicState(roots[1], goodScales[1]))

\* --------------------------------------------------------------- actions

\* A method of the Clock or the Engine is called.
Call ==
  /\ calls < MaxCalls
  /\ calls' = calls + 1

\* Mutant of Pushed: the listener put in front.
PushedFront(lst, l, stamp) == <<[id |-> l, reg |-> stamp]>> \o lst

\* this.listeners.push(listener)
Pushed(lst, l, stamp) == Append(lst, [id |-> l, reg |-> stamp])

\* Clock.subscribe(listener)
SubscribeClock(l) ==
  /\ Call
  /\ listeners' = Pushed(listeners, l, regs + 1)
  /\ regs' = regs + 1
  /\ unsubscribed' = unsubscribed \ {l}
  /\ UNCHANGED <<bpm, startTime, position, intervalId, timers, now, log,
                 passes, stopCalled, lastSetBpm, history, nAdvances>>

\* subscribe() called on the Clock itself.
Subscribe(l) == SubscribeClock(l) /\ UNCHANGED engine

\* Engine.registerLayer(layer): this.layers.push(layer);
\* this.clock.subscribe(layer).  Engine.layers is private and never read:
\* it is no state of the model.
RegisterLayer(l) == Subscribe(l)

\* this.listeners.indexOf(listener): first position holding l, 0 if none
IndexOf(lst, l) ==
  IF \E i \in 1..Len(lst) : lst[i].id = l
  THEN CHOOSE i \in 1..Len(lst) :
         lst[i].id = l /\ \A j \in 1..(i - 1) : lst[j].id # l
  ELSE 0

\* this.listeners.splice(idx, 1)
Spliced(lst, idx) ==
  [i \in 1..(Len(lst) - 1) |-> IF i < idx THEN lst[i] ELSE lst[i + 1]]

\* Clock.unsubscribe(listener); of a listener that is not subscribed it
\* changes nothing (a stuttering step).
Unsubscribe(l) ==
  /\ IndexOf(listeners, l) > 0
  /\ Call
  /\ listeners' = Spliced(listeners, IndexOf(listeners, l))
  /\ unsubscribed' = unsubscribed \cup {l}
  /\ UNCHANGED <<bpm, startTime, position, intervalId, timers, now, log,
                 passes, regs, stopCalled, lastSetBpm, history, nAdvances,
                 engine>>

\* Clock.setBpm(bpm)
SetBpm(b) ==
  /\ Call
  /\ bpm' = Clamp(b)
  /\ lastSetBpm' = b
  /\ tempoChanged' = (tempoChanged \/ Clamp(b) # bpm)
  /\ UNCHANGED <<startTime, position, listeners, intervalId, timers, now,
                 log, passes, regs, stopCalled, regsAtStart, unsubscribed,
                 nAdvances, engine>>

\* Clock.start(): record the start time, reset the position, create the
\* closure and its timer (a timer already running is left running), then run
\* schedule() once.
StartBody ==
  /\ Len(timers) + 1 \in Runs
  /\ startTime' = now
  /\ intervalId' = Len(timers) + 1
  /\ Schedule(Len(timers) + 1, -1, now)
  /\ stopCalled' = FALSE
  /\ tempoChanged' = FALSE
  /\ regsAtStart' = regs
  /\ UNCHANGED <<bpm, listeners, now, regs, lastSetBpm, unsubscribed,
                 nAdvances>>

\* Clock.start() called by the program.
StartClock == Call /\ StartBody

\* Clock.start() called on the Clock itself.
Start == StartClock /\ UNCHANGED engine

\* Mutant of Stop: stop() also resets the position, as start() does.
StopResetting ==
  /\ Call
  /\ IF intervalId # 0
     THEN /\ timers' = [timers EXCEPT ![intervalId].active = FALSE]
          /\ intervalId' = 0
     ELSE UNCHANGED <<timers, intervalId>>
  /\ currentTick' = 0 /\ currentBeat' = 0 /\ currentBar' = 0
  /\ currentPhrase' = 0
  /\ stopCalled' = TRUE
  /\ UNCHANGED <<bpm, startTime, listeners, now, log, passes, regs,
                 lastSetBpm, history, unsubscribed, nAdvances, engine>>

\* Clock.stop(): clearInterval(this.intervalId) if there is one.
StopClock ==
  /\ Call
  /\ IF intervalId # 0
     THEN /\ timers' = [timers EXCEPT ![intervalId].active = FALSE]
          /\ intervalId' = 0
     ELSE UNCHANGED <<timers, intervalId>>
  /\ stopCalled' = TRUE
  /\ UNCHANGED <<bpm, startTime, position, listeners, now, log, passes,
                 regs, lastSetBpm, history, unsubscribed, nAdvances>>

\* Clock.stop() called on the Clock itself.
Stop == StopClock /\ UNCHANGED engine

\* The host timer of run c fires: schedule() of that run's closure.
PollClock(c) ==
  /\ timers[c].active
  /\ Schedule(c, timers[c].last, startTime)
  /\ UNCHANGED <<bpm, startTime, listeners, intervalId, now, regs,
                 stopCalled, lastSetBpm, history, unsubscribed, calls,
                 nAdvances>>

\* The poll of a Clock whose listeners only receive.
Poll(c) == PollClock(c) /\ UNCHANGED engine

\* The time source moves on.
Advance(d) ==
  /\ nAdvances < MaxAdvances
  /\ now' = now + d
  /\ nAdvances' = nAdvances + 1
  /\ UNCHANGED <<bpm, startTime, position, listeners, intervalId, timers,
                 log, passes, regs, stopCalled, lastSetBpm, history,
                 unsubscribed, calls, engine>>

Next ==
  \/ \E l \in Listeners : Subscribe(l)
  \/ \E l \in Listeners : RegisterLayer(l)
  \/ \E l \in Listeners : Unsubscribe(l)
  \/ \E b \in SetBpmArgs : SetBpm(b)
  \/ Start
  \/ Stop
  \/ \E c \in 1..Len(timers) : Poll(c)
  \/ \E d \in Steps : Advance(d)

Spec == Init /\ [][Next]_vars

\* Clock.getBpm()
GetBpm == bpm

\* Clock.getPosition()
GetPosition ==
  [tick |-> currentTick, beat |-> currentBeat, bar |-> currentBar,
   phrase |-> currentPhrase]

\* Long runs: the layers are registered, the Clock is started and polled
\* while the time source moves on by eight seconds at a time (65 ticks at
\* 120 bpm), far enough for bars and phrases to begin.
LongStep == 8 * UnitsPerSecond

NextLong ==
  \/ \E l \in Listeners : RegisterLayer(l)
  \/ Start
  \/ \E c \in 1..Len(timers) : Poll(c)
  \/ Advance(LongStep)

SpecLong == Init /\ [][NextLong]_vars

\* ------------------------------------------------------------ the Engine

\* A run is left for each resume request that has not settled.
RunLeft == Len(timers) + pendingResumes + 1 \in Runs

\* Engine.start(): this.clock.start()
EngineStart == RunLeft /\ StartClock /\ UNCHANGED engine

\* Mutant of Pause: the test of this.paused left out.
PauseUnguarded ==
  /\ StopClock
  /\ paused' = TRUE
  /\ ctxCalls' = Append(ctxCalls, "suspend")
  /\ UNCHANGED <<pendingResumes, host, others>>

\* Engine.pause(): nothing if paused; else paused = true, clock.stop(),
\* ctx.suspend() (its promise is only given a catch that does nothing).
Pause ==
  IF paused
  THEN /\ Call
       /\ UNCHANGED <<bpm, startTime, position, listeners, intervalId, timers,
                      now, log, passes, regs, stopCalled, lastSetBpm, history,
                      unsubscribed, nAdvances, engine>>
  ELSE /\ StopClock
       /\ paused' = TRUE
       /\ ctxCalls' = Append(ctxCalls, "suspend")
       /\ UNCHANGED <<pendingResumes, host, others>>

\* Engine.resume(): nothing if not paused; else paused = false and
\* ctx.resume(), whose promise starts the Clock when it settles.
Resume ==
  /\ Call
  /\ IF paused
     THEN /\ RunLeft
          /\ paused' = FALSE
          /\ ctxCalls' = Append(ctxCalls, "resume")
          /\ pendingResumes' = pendingResumes + 1
          /\ UNCHANGED <<host, others>>
     ELSE UNCHANGED engine
  /\ UNCHANGED <<bpm, startTime, position, listeners, intervalId, timers,
                 now, log, passes, regs, stopCalled, lastSetBpm, history,
                 unsubscribed, nAdvances>>

\* The settled requests are kept by kind and outcome, not in the order in
\* which they settled: suspends before resumes, fulfilled before rejected.
OutcomeRank(r) ==
  (IF r.req = "suspend" THEN 0 ELSE 2) + (IF r.ok THEN 0 ELSE 1)
Filed(seq, r) ==
  LET k == Cardinality({i \in 1..Len(seq) :
                          OutcomeRank(seq[i]) <= OutcomeRank(r)})
  IN SubSeq(seq, 1, k) \o <<r>> \o SubSeq(seq, k + 1, Len(seq))

\* The requests of the given kind issued, and those that have settled.
Issued(kind) == Cardinality({i \in 1..Len(ctxCalls) : ctxCalls[i] = kind})
Settled(kind) == Cardinality({i \in 1..Len(settled) : settled[i].req = kind})

\* The promise of a ctx.suspend() settles: fulfilled, nothing is attached;
\* rejected, the .catch attached by pause() takes the rejection and does
\* nothing.
SuspendSettled(ok) ==
  /\ Settled("suspend") < Issued("suspend")
  /\ settled' = Filed(settled, [req |-> "suspend", ok |-> ok])
  /\ UNCHANGED <<bpm, startTime, position, listeners, intervalId, timers,
                 now, log, passes, regs, stopCalled, lastSetBpm, history,
                 unsubscribed, calls, nAdvances, paused, pendingResumes,
                 ctxCalls, unhandled, engineStopped, timeouts, others>>

\* Mutant of ResumeSettledWith: resume() without its .catch: a rejection
\* starts nothing and is left unhandled.
ResumeSettledNoCatch(ok) ==
  /\ pendingResumes > 0
  /\ pendingResumes' = pendingResumes - 1
  /\ settled' = Filed(settled, [req |-> "resume", ok |-> ok])
  /\ IF ok
     THEN StartBody /\ UNCHANGED unhandled
     ELSE /\ unhandled' = unhandled + 1
          /\ UNCHANGED <<bpm, startTime, position, listeners, intervalId,
                         timers, now, log, passes, regs, stopCalled,
                         lastSetBpm, history, unsubscribed, nAdvances>>
  /\ UNCHANGED <<paused, ctxCalls, engineStopped, timeouts, calls, others>>

\* The promise of a ctx.resume() settles: fulfilled, .then calls
\* this.clock.start(); rejected, .catch calls this.clock.start().
ResumeStarts(ok) ==
  /\ pendingResumes > 0
  /\ pendingResumes' = pendingResumes - 1
  /\ settled' = Filed(settled, [req |-> "resume", ok |-> ok])
  /\ StartBody
  /\ UNCHANGED <<paused, ctxCalls, unhandled, engineStopped, timeouts, calls>>

\* The settling of a resume request of an Engine whose layers only receive.
ResumeSettledWith(ok) == ResumeStarts(ok) /\ UNCHANGED others

ResumeSettled == \E ok \in BOOLEAN : ResumeSettledWith(ok)

\* Engine.stop(): clock.stop(), the fade of the master gain to 0 over 2 s,
\* and setTimeout(() => this.ctx.close(), 2500).
EngineStopBody ==
  /\ StopClock
  /\ engineStopped' = TRUE
  /\ ctxCalls' = Append(ctxCalls, "fade")
  /\ UNCHANGED <<paused, pendingResumes, settled, unhandled>>

\* Engine.stop() called on an Engine by itself.
EngineStop ==
  /\ EngineStopBody
  /\ timeouts' = Append(timeouts, "close")
  /\ UNCHANGED others

\* The timeout set by Engine.stop() fires: this.ctx.close().
CloseFired ==
  /\ timeouts # <<>> /\ Head(timeouts) = "close"
  /\ timeouts' = Tail(timeouts)
  /\ ctxCalls' = Append(ctxCalls, "close")
  /\ UNCHANGED <<bpm, startTime, position, listeners, intervalId, timers,
                 now, log, passes, regs, stopCalled, lastSetBpm, history,
                 unsubscribed, calls, nAdvances, paused, pendingResumes,
                 settled, unhandled, engineStopped, others>>

NextEngine ==
  \/ \E l \in Listeners : RegisterLayer(l)
  \/ EngineStart
  \/ Pause
  \/ Resume
  \/ ResumeSettled
  \/ \E ok \in BOOLEAN : SuspendSettled(ok)
  \/ EngineStop
  \/ CloseFired
  \/ \E c \in 1..Len(timers) : Poll(c)
  \/ \E d \in Steps : Advance(d)

SpecEngine == Init /\ [][NextEngine]_vars

\* The audio context settles every resume request, one way or the other.
SpecEngineFair == SpecEngine /\ WF_vars(ResumeSettled)

\* node.connect(engine.getMainBus()) by a layer
ConnectMainBus(n) ==
  /\ edges' = edges \cup {<<n, GetMainBus>>}
  /\ UNCHANGED <<bpm, startTime, position, listeners, intervalId, timers,
                 now, log, passes, regs, stopCalled, lastSetBpm, history,
                 unsubscribed, calls, nAdvances, paused, pendingResumes,
                 ctxCalls, host, player, sidechain, library>>

\* node.connect(engine.getDrumBus()) by a layer
ConnectDrumBus(n) ==
  /\ edges' = edges \cup {<<n, GetDrumBus>>}
  /\ UNCHANGED <<bpm, startTime, position, listeners, intervalId, timers,
                 now, log, passes, regs, stopCalled, lastSetBpm, history,
                 unsubscribed, calls, nAdvances, paused, pendingResumes,
                 ctxCalls, host, player, sidechain, library>>

\* node.disconnect() by a layer: every connection from the node is removed.
Disconnect(n) ==
  /\ edges' = {e \in edges : e[1] # n}
  /\ UNCHANGED <<bpm, startTime, position, listeners, intervalId, timers,
                 now, log, passes, regs, stopCalled, lastSetBpm, history,
                 unsubscribed, calls, nAdvances, paused, pendingResumes,
                 ctxCalls, host, player, sidechain, library>>

NextGraph ==
  \/ \E n \in LayerNodes : ConnectMainBus(n)
  \/ \E n \in LayerNodes : ConnectDrumBus(n)
  \/ \E n \in LayerNodes : Disconnect(n)

SpecGraph == Init /\ [][NextGraph]_vars

\* Engine.triggerSidechain(time)
TriggerSidechain(time) ==
  /\ Len(triggers) < MaxTriggers
  /\ triggers' = Append(triggers, time)
  /\ automation' = Triggered(automation, time, Len(triggers) + 1)
  /\ UNCHANGED <<bpm, startTime, position, listeners, intervalId, timers,
                 now, log, passes, regs, stopCalled, lastSetBpm, history,
                 unsubscribed, calls, nAdvances, paused, pendingResumes,
                 ctxCalls, host, player, graph, library>>

NextSidechain == \E time \in TriggerTimes : TriggerSidechain(time)

SpecSidechain == Init /\ [][NextSidechain]_vars

\* ------------------------------------------------ Modulator and the bank

\* What the actions of the modulation leave alone.
UnchangedByModulation ==
  UNCHANGED <<bpm, startTime, position, listeners, intervalId, timers, now,
              log, passes, regs, stopCalled, lastSetBpm, history,
              unsubscribed, calls, nAdvances, paused, pendingResumes,
              ctxCalls, host, player, graph, sidechain, counter, motif,
              hearing, music, quit>>

\* new Modulator({base, range, speed}): the phase offset is random.
NewModulator(cfg, off) ==
  /\ Len(mods) < MaxMods
  /\ mods' = Append(mods, [base |-> cfg.base, range |-> cfg.range,
                           speed |-> cfg.speed, offset |-> off])
  /\ answer' = [NoAnswer EXCEPT !.op = "new", !.mod = Len(mods) + 1]
  /\ UNCHANGED <<bank, returned>>
  /\ UnchangedByModulation

\* Modulator.setBase(base), setRange(range), setSpeed(speed)
SetBase(i, b) ==
  /\ mods' = [mods EXCEPT ![i].base = b]
  /\ answer' = [NoAnswer EXCEPT !.op = "setBase", !.mod = i]
  /\ UNCHANGED <<bank, returned>>
  /\ UnchangedByModulation

SetRange(i, r) ==
  /\ mods' = [mods EXCEPT ![i].range = r]
  /\ answer' = [NoAnswer EXCEPT !.op = "setRange", !.mod = i]
  /\ UNCHANGED <<bank, returned>>
  /\ UnchangedByModulation

SetSpeed(i, sp) ==
  /\ mods' = [mods EXCEPT ![i].speed = sp]
  /\ answer' = [NoAnswer EXCEPT !.op = "setSpeed", !.mod = i]
  /\ UNCHANGED <<bank, returned>>
  /\ UnchangedByModulation

\* mod.getValue(t) and mod.getNormalized(t) called on Modulator i.
QueryValue(i, t) ==
  /\ answer' = [NoAnswer EXCEPT !.op = "getValue", !.mod = i,
                                !.num = GetValue(mods[i], t)[1],
                                !.den = GetValue(mods[i], t)[2]]
  /\ UNCHANGED <<mods, bank, returned>>
  /\ UnchangedByModulation

QueryNormalized(i, t) ==
  /\ answer' = [NoAnswer EXCEPT !.op = "getNormalized", !.mod = i,
                                !.num = GetNormalized(mods[i], t)[1],
                                !.den = GetNormalized(mods[i], t)[2]]
  /\ UNCHANGED <<mods, bank, returned>>
  /\ UnchangedByModulation

NextModulator ==
  \/ \E cfg \in Configs, off \in Offsets : NewModulator(cfg, off)
  \/ \E i \in 1..Len(mods), b \in Bases : SetBase(i, b)
  \/ \E i \in 1..Len(mods), r \in Ranges : SetRange(i, r)
  \/ \E i \in 1..Len(mods), sp \in Speeds : SetSpeed(i, sp)
  \/ \E i \in 1..Len(mods), t \in QueryTimes : QueryValue(i, t)
  \/ \E i \in 1..Len(mods), t \in QueryTimes : QueryNormalized(i, t)

SpecModulator == Init /\ [][NextModulator]_vars

\* Mutant of BankGetValue: an unknown name is an error.
BankGetValueStrict(name, t) ==
  /\ answer' = IF bank[name] = 0
               THEN [NoAnswer EXCEPT !.op = "bank.getValue", !.name = name,
                                     !.threw = TRUE]
               ELSE [NoAnswer EXCEPT !.op = "bank.getValue", !.name = name,
                       !.mod = bank[name], !.found = TRUE,
                       !.num = GetValue(mods[bank[name]], t)[1],
                       !.den = GetValue(mods[bank[name]], t)[2]]
  /\ UNCHANGED <<mods, bank, returned>>
  /\ UnchangedByModulation

\* ModulationBank.add(name, config): creates a Modulator, stores it under
\* the name and returns it.
BankAdd(name, cfg, off) ==
  /\ Len(mods) < MaxAdds
  /\ mods' = Append(mods, [base |-> cfg.base, range |-> cfg.range,
                           speed |-> cfg.speed, offset |-> off])
  /\ bank' = [bank EXCEPT ![name] = Len(mods) + 1]
  /\ returned' = [returned EXCEPT ![name] = Len(mods) + 1]
  /\ answer' = [NoAnswer EXCEPT !.op = "bank.add", !.name = name,
                                !.mod = Len(mods) + 1, !.found = TRUE]
  /\ UnchangedByModulation

\* ModulationBank.get(name): the Modulator, or not found.
BankGet(name) ==
  /\ answer' = [NoAnswer EXCEPT !.op = "bank.get", !.name = name,
                                !.mod = bank[name],
                                !.found = (bank[name] # 0)]
  /\ UNCHANGED <<mods, bank, returned>>
  /\ UnchangedByModulation

\* ModulationBank.getValue(name, t): 0 for an unknown name.
BankGetValue(name, t) ==
  /\ answer' = IF bank[name] = 0
               THEN [NoAnswer EXCEPT !.op = "bank.getValue", !.name = name]
               ELSE [NoAnswer EXCEPT !.op = "bank.getValue", !.name = name,
                       !.mod = bank[name], !.found = TRUE,
                       !.num = GetValue(mods[bank[name]], t)[1],
                       !.den = GetValue(mods[bank[name]], t)[2]]
  /\ UNCHANGED <<mods, bank, returned>>
  /\ UnchangedByModulation

\* ModulationBank.getNormalized(name, t): 0.5 for an unknown name.
BankGetNormalized(name, t) ==
  /\ answer' = IF bank[name] = 0
               THEN [NoAnswer EXCEPT !.op = "bank.getNormalized",
                                     !.name = name, !.num = 1, !.den = 2]
               ELSE [NoAnswer EXCEPT !.op = "bank.getNormalized",
                       !.name = name, !.mod = bank[name], !.found = TRUE,
                       !.num = GetNormalized(mods[bank[name]], t)[1],
                       !.den = GetNormalized(mods[bank[name]], t)[2]]
  /\ UNCHANGED <<mods, bank, returned>>
  /\ UnchangedByModulation

NextBank ==
  \/ \E n \in Names, cfg \in Configs, off \in Offsets :
       BankAdd(n, cfg, off)
  \/ \E n \in Names : BankGet(n)
  \/ \E n \in Names, t \in QueryTimes : BankGetValue(n, t)
  \/ \E n \in Names, t \in QueryTimes : BankGetNormalized(n, t)

SpecBank == Init /\ [][NextBank]_vars

\* -------------------------------------------------------- the node counter

\* The counts create and cleanup are called with (1 when left out).
Counts == {1, 3}

\* What the actions of the node counter leave alone.
UnchangedByCounter ==
  UNCHANGED <<bpm, startTime, position, listeners, intervalId, timers, now,
              log, passes, regs, stopCalled, lastSetBpm, history,
              unsubscribed, calls, nAdvances, paused, pendingResumes,
              ctxCalls, host, player, graph, sidechain, modulation, motif,
              hearing, music, quit>>

\* nodeCounter.create(n)
Created(n) ==
  /\ nodeCreated' = nodeCreated + n
  /\ nodeActive' = nodeActive + n

\* nodeCounter.cleanup(n)
Cleaned(n) ==
  /\ nodeCleaned' = nodeCleaned + n
  /\ nodeActive' = nodeActive - n

NodeCreate(n) ==
  /\ nodeCreated + n <= MaxNodes
  /\ Created(n)
  /\ UNCHANGED nodeCleaned
  /\ UnchangedByCounter

NodeCleanup(n) ==
  /\ nodeCleaned + n <= MaxNodes
  /\ Cleaned(n)
  /\ UNCHANGED nodeCreated
  /\ UnchangedByCounter

\* Mutant of NodeReset: the cleaned count is kept.
NodeResetKeepingCleaned ==
  /\ nodeCreated' = 0 /\ nodeActive' = 0
  /\ UNCHANGED nodeCleaned
  /\ UnchangedByCounter

\* nodeCounter.reset()
NodeReset ==
  /\ nodeCreated' = 0 /\ nodeCleaned' = 0 /\ nodeActive' = 0
  /\ UnchangedByCounter

\* nodeCounter.getStats() and nodeCounter.getActive()
GetStats ==
  [created |-> nodeCreated, cleaned |-> nodeCleaned, active |-> nodeActive]
GetActive == nodeActive

NextCounter ==
  \/ \E n \in Counts : NodeCreate(n)
  \/ \E n \in Counts : NodeCleanup(n)
  \/ NodeReset

SpecCounter == Init /\ [][NextCounter]_vars

\* ------------------------------------------------------------ the player

\* The tempi the player runs a track with (--bpm takes 70..120).
PlayerBpms == {70, 100, 120}

\* The listener objects createLayers registers, in order: pad, texture, arp,
\* beat.
TrackLayers == <<1, 3, 2, 8>>

\* createLayers(config) as far as the new Engine's Clock goes: four
\* registerLayer calls, then engine.start() at time 0 of the new audio
\* context: the list, the last tick of the first schedule() and its calls.
CreatedLayers(b) ==
  LET lst == [i \in 1..Len(TrackLayers) |-> [id |-> TrackLayers[i], reg |-> i]]
      tickTime == TickDuration(b)
      target == TargetTick(0, 0, tickTime)
  IN [listeners |-> lst, target |-> target,
      log |-> FireRange(0, target, 0, tickTime, lst, 0, 1)]

\* main() up to the first createLayers(config): one track playing.
InitPlayer ==
  /\ state = InitMusicState(roots[1], goodScales[1])
  /\ bpm \in PlayerBpms
  /\ startTime = 0
  /\ currentTick = CreatedLayers(bpm).target
  /\ currentBeat = BeatOf(currentTick)
  /\ currentBar = BarOf(currentTick)
  /\ currentPhrase = PhraseOf(currentTick)
  /\ listeners = CreatedLayers(bpm).listeners
  /\ intervalId = 1
  /\ timers = <<[active |-> TRUE, last |-> CreatedLayers(bpm).target]>>
  /\ now = 0
  /\ log = CreatedLayers(bpm).log
  /\ passes = CreatedLayers(bpm).target + 1
  /\ regs = Len(TrackLayers)
  /\ stopCalled = FALSE
  /\ lastSetBpm = 0
  /\ tempoChanged = FALSE
  /\ regsAtStart = Len(TrackLayers)
  /\ unsubscribed = {}
  /\ paused = FALSE
  /\ pendingResumes = 0
  /\ ctxCalls = <<>>
  /\ settled = <<>>
  /\ unhandled = 0
  /\ engineStopped = FALSE
  /\ timeouts = <<>>
  /\ isTransitioning = FALSE
  /\ layersStopped = FALSE
  /\ retired = <<>>
  /\ edges = ConstructorEdges
  /\ automation = <<>>
  /\ triggers = <<>>
  /\ mods = <<>>
  /\ bank = [n \in Names |-> 0]
  /\ returned = [n \in Names |-> 0]
  /\ answer = NoAnswer
  /\ nodeCreated = 0 /\ nodeCleaned = 0 /\ nodeActive = 0
  /\ wall = 0
  /\ stoppedAt = 0
  /\ cleanups = {}
  /\ notes = NoMotif
  /\ layer = NoLayer
  /\ swept = {}
  /\ polls = <<>>
  /\ isQuitting = FALSE
  /\ exited = FALSE
  /\ calls = 0
  /\ nAdvances = 0

\* handlePause(): nothing during a track change or once quit has begun;
\* else engine.resume() if the Engine is paused, engine.pause() if not.
HandlePause ==
  /\ ~isQuitting /\ ~isTransitioning
  /\ IF paused THEN Resume ELSE Pause

\* handleNext() up to its await (the key n, or the progress interval at the
\* end of the track): stopLayers(layers) stops the four layers and the
\* Engine, whose stop() sets the timeout of ctx.close(), and then sets the
\* timeout that resolves the awaited promise.
HandleNextBody ==
  /\ ~isQuitting /\ ~isTransitioning
  /\ isTransitioning' = TRUE
  /\ layersStopped' = TRUE
  /\ EngineStopBody
  /\ timeouts' = timeouts \o <<"close", "resolve">>
  /\ UNCHANGED <<retired, graph, sidechain>>

\* handleNext() in the player.
HandleNext == HandleNextBody /\ UNCHANGED library

\* What remains of the Engine of the track that ends.
Retiring ==
  [running |-> \E i \in 1..Len(timers) : timers[i].active,
   pending |-> pendingResumes,
   stopped |-> engineStopped,
   layersStopped |-> layersStopped,
   closed |-> Issued("close") > 0]

\* The timeout of stopLayers fires and handleNext() goes on after its await:
\* layers = createLayers(config), isTransitioning = false.  The old Engine
\* is dropped as it is.
Resolved ==
  /\ timeouts # <<>> /\ Head(timeouts) = "resolve"
  /\ timeouts' = Tail(timeouts)
  /\ retired' = Append(retired, Retiring)
  /\ startTime' = 0
  /\ now' = 0
  /\ listeners' = CreatedLayers(bpm).listeners
  /\ log' = CreatedLayers(bpm).log
  /\ passes' = CreatedLayers(bpm).target + 1
  /\ timers' = <<[active |-> TRUE, last |-> CreatedLayers(bpm).target]>>
  /\ intervalId' = 1
  /\ currentTick' = CreatedLayers(bpm).target
  /\ currentBeat' = BeatOf(CreatedLayers(bpm).target)
  /\ currentBar' = BarOf(CreatedLayers(bpm).target)
  /\ currentPhrase' = PhraseOf(CreatedLayers(bpm).target)
  /\ regs' = Len(TrackLayers)
  /\ regsAtStart' = Len(TrackLayers)
  /\ stopCalled' = FALSE
  /\ lastSetBpm' = 0
  /\ tempoChanged' = FALSE
  /\ unsubscribed' = {}
  /\ paused' = FALSE
  /\ pendingResumes' = 0
  /\ ctxCalls' = <<>>
  /\ settled' = <<>>
  /\ engineStopped' = FALSE
  /\ isTransitioning' = FALSE
  /\ layersStopped' = FALSE
  /\ edges' = ConstructorEdges
  /\ automation' = <<>>
  /\ triggers' = <<>>
  /\ UNCHANGED <<bpm, unhandled, calls, nAdvances, library>>

\* The promise of a ctx.resume() of an earlier track's Engine settles (once
\* the context is closed it can only be rejected): .then or .catch calls
\* that Engine's clock.start().
RetiredResumeSettled(i) ==
  /\ retired[i].pending > 0
  /\ retired' = [retired EXCEPT ![i].pending = @ - 1, ![i].running = TRUE]
  /\ UNCHANGED <<bpm, startTime, position, listeners, intervalId, timers,
                 now, log, passes, regs, stopCalled, lastSetBpm, history,
                 unsubscribed, calls, nAdvances, paused, pendingResumes,
                 ctxCalls, host, isTransitioning, layersStopped, graph,
                 sidechain, library>>

NextPlayer ==
  \/ HandlePause
  \/ HandleNext
  \/ CloseFired
  \/ Resolved
  \/ ResumeSettled
  \/ \E ok \in BOOLEAN : SuspendSettled(ok)
  \/ \E i \in 1..Len(retired) : RetiredResumeSettled(i)
  \/ \E c \in 1..Len(timers) : Poll(c)
  \/ \E d \in Steps : Advance(d)

SpecPlayer == InitPlayer /\ [][NextPlayer]_vars

\* ----------------------------------------------------- quitting the player

\* handleQuit() up to its await (the keys q, escape and ctrl-c): isQuitting
\* is set and stopLayers(layers) stops the layers and the Engine `layers`
\* holds, which during a track change is still the Engine of the track that
\* ends; ctx.close() of that Engine comes due after handleNext() has gone on.
HandleQuit ==
  /\ ~exited
  /\ ~isQuitting
  /\ isQuitting' = TRUE
  /\ layersStopped' = TRUE
  /\ EngineStopBody
  /\ timeouts' = timeouts \o <<IF isTransitioning THEN "closeRetired"
                               ELSE "close", "exit">>
  /\ UNCHANGED <<isTransitioning, retired, graph, sidechain, modulation,
                 counter, motif, hearing, music, exited>>

\* The timeout of a second Engine.stop() on the Engine of the track that has
\* ended fires: ctx.close() on that Engine's context.
RetiredCloseFired ==
  /\ timeouts # <<>> /\ Head(timeouts) = "closeRetired"
  /\ timeouts' = Tail(timeouts)
  /\ retired' = [retired EXCEPT ![Len(retired)].closed = TRUE]
  /\ UNCHANGED <<bpm, startTime, position, listeners, intervalId, timers,
                 now, log, passes, regs, stopCalled, lastSetBpm, history,
                 unsubscribed, calls, nAdvances, paused, pendingResumes,
                 ctxCalls, settled, unhandled, engineStopped,
                 isTransitioning, layersStopped, graph, sidechain, library>>

\* The timeout of handleQuit()'s stopLayers fires and handleQuit() goes on
\* after its await: process.exit(0), which ends timers and timeouts.
Exit ==
  /\ timeouts # <<>> /\ Head(timeouts) = "exit"
  /\ exited' = TRUE
  /\ timeouts' = <<>>
  /\ UNCHANGED <<bpm, startTime, position, listeners, intervalId, timers,
                 now, log, passes, regs, stopCalled, lastSetBpm, history,
                 unsubscribed, calls, nAdvances, paused, pendingResumes,
                 ctxCalls, settled, unhandled, engineStopped, player, graph,
                 sidechain, modulation, counter, motif, hearing, music,
                 isQuitting>>

NextQuit ==
  \/ ~exited /\ HandlePause
  \/ ~exited /\ HandleNext
  \/ HandleQuit
  \/ CloseFired
  \/ RetiredCloseFired
  \/ Resolved
  \/ Exit
  \/ ~exited /\ ResumeSettled
  \/ \E c \in 1..Len(timers) : ~exited /\ Poll(c)
  \/ \E d \in Steps : ~exited /\ Advance(d)

SpecQuit == InitPlayer /\ [][NextQuit]_vars

\* --------------------------------------------- the Engine's MusicState

\* What setKitName and setSynthName leave alone.
UnchangedBySetter ==
  UNCHANGED <<bpm, startTime, position, listeners, intervalId, timers, now,
              log, passes, regs, stopCalled, lastSetBpm, history,
              unsubscribed, nAdvances, paused, pendingResumes, ctxCalls,
              host, player, graph, sidechain, modulation, counter, motif,
              hearing, quit>>

\* Mutant of SetKitName: the name is written to both name fields.
SetKitNameBoth(name) ==
  /\ Call
  /\ state' = [state EXCEPT !.kitName = name, !.synthName = name]
  /\ UnchangedBySetter

\* Engine.setKitName(name)
SetKitName(name) ==
  /\ Call
  /\ state' = [state EXCEPT !.kitName = name]
  /\ UnchangedBySetter

\* Engine.setSynthName(name)
SetSynthName(name) ==
  /\ Call
  /\ state' = [state EXCEPT !.synthName = name]
  /\ UnchangedBySetter

\* The Engine after construction, with any MusicState initMusicState() can
\* return.
InitState ==
  \E r \in 1..Len(roots), s \in 1..Len(goodScales) :
     EngineWith(InitMusicState(roots[r], goodScales[s]))

NextState ==
  \/ RegisterLayer(1)
  \/ EngineStart
  \/ Pause
  \/ Resume
  \/ ResumeSettled
  \/ EngineStop
  \/ triggers = <<>> /\ TriggerSidechain(0)
  \/ \E name \in KitNames : SetKitName(name)
  \/ \E name \in SynthNames : SetSynthName(name)
  \/ \E c \in 1..Len(timers) : Poll(c)
  \/ Advance(Lookahead)

SpecState == InitState /\ [][NextState]_vars

\* ------------------------------------------ the motif layer in a track

\* What the steps of the motif layer and of the host's time leave alone.
UnchangedByMotif ==
  UNCHANGED <<bpm, startTime, position, listeners, intervalId, timers, now,
              log, passes, regs, stopCalled, lastSetBpm, history,
              unsubscribed, calls, nAdvances, paused, pendingResumes,
              ctxCalls, host, player, sidechain, modulation, hearing,
              music, quit>>

\* new MotifLayer(engine) for the current track's Engine (registered with
\* it): the preset is drawn at random; filter -> masterGain -> main bus.
NewMotifLayer(p) ==
  /\ notes.preset = 0
  /\ ~isTransitioning
  /\ notes' = [preset |-> p, track |-> Len(retired), played |-> 0]
  /\ edges' = edges \cup {<<"motifFilter", "motifGain">>,
                          <<"motifGain", GetMainBus>>}
  /\ UNCHANGED <<counter, wall, stoppedAt, cleanups>>
  /\ UnchangedByMotif

\* The Clock of the Engine the layer is registered with has a timer running.
MotifClockRunning ==
  IF notes.track = Len(retired)
  THEN \E i \in 1..Len(timers) : timers[i].active
  ELSE retired[notes.track + 1].running

\* The times at which the pending timeouts are due.
DueTimes ==
  {c.due : c \in cleanups}
  \cup (IF timeouts # <<>> THEN {stoppedAt + StopDelay} ELSE {})

\* A schedule() of the running Clock calls the layer's onTick on a pattern
\* hit that passes the density gate: playNote connects oscA and oscB to
\* noteGain and noteGain to the filter, counts three nodes and sets the
\* timeout of their cleanup.
MotifNote ==
  /\ notes.preset # 0
  /\ MotifClockRunning
  /\ nodeCreated + 3 <= MaxNodes
  /\ notes' = [notes EXCEPT !.played = @ + 1]
  /\ edges' = edges \cup {<<OscA[notes'.played], NoteGain[notes'.played]>>,
                          <<OscB[notes'.played], NoteGain[notes'.played]>>,
                          <<NoteGain[notes'.played], "motifFilter">>}
  /\ Created(3)
  /\ cleanups' = cleanups \cup
                   {[note |-> notes.played + 1,
                     due |-> wall + CleanupDelay(bpm, notes.preset)]}
  /\ UNCHANGED <<nodeCleaned, wall, stoppedAt>>
  /\ UnchangedByMotif

\* The cleanup timeout of a note fires: oscA.disconnect(),
\* oscB.disconnect(), noteGain.disconnect(), nodeCounter.cleanup(3).
CleanupFired(c) ==
  /\ c.due <= wall
  /\ \A t \in DueTimes : c.due <= t
  /\ cleanups' = cleanups \ {c}
  /\ edges' = {e \in edges : e[1] \notin NoteNodes(c.note)}
  /\ Cleaned(3)
  /\ UNCHANGED <<nodeCreated, wall, stoppedAt, notes>>
  /\ UnchangedByMotif

\* The host's time moves on, up to the next timeout that is due.
AdvanceWall(d) ==
  /\ wall < MaxWall
  /\ \A t \in DueTimes : wall < t
  /\ wall' = Min(wall + d, IF DueTimes = {} THEN wall + d
                           ELSE CHOOSE t \in DueTimes :
                                  \A u \in DueTimes : t <= u)
  /\ UNCHANGED <<edges, counter, stoppedAt, cleanups, notes>>
  /\ UnchangedByMotif

\* handleNext() at the host's time wall.
MotifNext ==
  /\ HandleNextBody
  /\ stoppedAt' = wall
  /\ UNCHANGED <<modulation, counter, wall, cleanups, notes, hearing,
                 music, quit>>

\* The timeouts of Engine.stop() and of stopLayers() fire when they are
\* due, after the timeouts that were due before.
StopTimeoutDue ==
  /\ stoppedAt + StopDelay <= wall
  /\ \A c \in cleanups : stoppedAt + StopDelay < c.due

MotifCloseFired == StopTimeoutDue /\ CloseFired
MotifResolved == StopTimeoutDue /\ Resolved

\* How far the host's time moves between two observations, in ms.
WallSteps == {700}

NextMotif ==
  \/ \E p \in 1..Len(MotifPresets) : NewMotifLayer(p)
  \/ MotifNote
  \/ \E c \in cleanups : CleanupFired(c)
  \/ \E d \in WallSteps : AdvanceWall(d)
  \/ HandlePause
  \/ MotifNext
  \/ MotifCloseFired
  \/ MotifResolved
  \/ ResumeSettled
  \/ \E i \in 1..Len(retired) : RetiredResumeSettled(i)

SpecMotif == InitPlayer /\ [][NextMotif]_vars

\* ------------------------------ the motif layer listening to the Clock

\* What the layer does with the callbacks `heard` of one schedule(), drawn
\* d: its fields change, and playNote counts three nodes for each note and
\* sets the timeout of its cleanup.  (The connections of the notes are
\* followed in SpecMotif.)
Listened(heard, d) ==
  /\ layer' = After(layer, heard, d)
  /\ cleanups' = cleanups \cup Timeouts(bpm, layer.preset, layer'.fresh, wall,
                                        layer.played)
  /\ Created(3 * Len(layer'.fresh))
  /\ UNCHANGED <<nodeCleaned, wall, stoppedAt, notes, swept, polls, player,
                 graph, sidechain, modulation, music, quit>>

\* new MotifLayer(engine) and engine.registerLayer(layer): filter ->
\* masterGain -> main bus, and the layer is subscribed to the Clock.
NewLayer(p, d) ==
  /\ ~layer.made
  /\ SubscribeClock(MotifListener)
  /\ layer' = Constructed(p, d)
  /\ edges' = edges \cup {<<"motifFilter", "motifGain">>,
                          <<"motifGain", GetMainBus>>}
  /\ UNCHANGED <<paused, pendingResumes, ctxCalls, host, player, sidechain,
                 modulation, counter, motif, swept, polls, music, quit>>

\* Engine.start() with the layer listening.
LayerStart(d) ==
  /\ layer.made /\ timers = <<>>
  /\ RunLeft
  /\ StartClock
  /\ Listened(log', d)
  /\ UNCHANGED <<paused, pendingResumes, ctxCalls, host>>

\* The host timer of run c fires with the layer listening.
LayerPoll(c, d) ==
  /\ PollClock(c)
  /\ Listened(SubSeq(log', Len(log) + 1, Len(log')), d)
  /\ UNCHANGED <<paused, pendingResumes, ctxCalls, host>>

\* The promise of ctx.resume() settles with the layer listening.
LayerResumeSettled(ok, d) ==
  /\ ResumeStarts(ok)
  /\ Listened(log', d)

\* How far the host's time moves between two observations: 552 poll
\* intervals (13.8 s).
LayerSteps == {552 * Interval}

\* The host's time moves on by d, and with it the audio time unless the
\* context is suspended (Engine.pause() has asked for that, and no resume
\* request has taken effect); the cleanup timeouts that come due have run
\* when they were due: oscA.disconnect(), oscB.disconnect(),
\* noteGain.disconnect(), nodeCounter.cleanup(3).
Elapse(d, running) ==
  /\ nAdvances < MaxAdvances
  /\ nAdvances' = nAdvances + 1
  /\ running \/ paused \/ pendingResumes > 0
  /\ wall' = wall + Millis(d)
  /\ now' = (IF running THEN now + d ELSE now)
  /\ cleanups' = {c \in cleanups : c.due > wall'}
  /\ swept' = {[note |-> c.note, end |-> c.end,
                at |-> IF running THEN now + Units(c.due - wall) ELSE now] :
                 c \in {x \in cleanups : x.due <= wall'}}
  /\ Cleaned(3 * Cardinality({c \in cleanups : c.due <= wall'}))
  /\ UNCHANGED <<bpm, startTime, position, listeners, intervalId, timers,
                 log, passes, regs, stopCalled, lastSetBpm, history,
                 unsubscribed, calls, paused, pendingResumes, ctxCalls, host,
                 player, graph, sidechain, modulation, nodeCreated, stoppedAt,
                 notes, layer, polls, music, quit>>

NextLayer ==
  \/ \E p \in 1..Len(MotifPresets), d \in Draws : NewLayer(p, d)
  \/ \E d \in Draws : LayerStart(d)
  \/ \E c \in 1..Len(timers), d \in Draws : LayerPoll(c, d)
  \/ timers # <<>> /\ Pause
  \/ timers # <<>> /\ Resume
  \/ \E ok \in BOOLEAN, d \in Draws : LayerResumeSettled(ok, d)
  \/ \E d \in LayerSteps, running \in BOOLEAN : Elapse(d, running)

SpecLayer == Init /\ [][NextLayer]_vars

\* ------------------------------------------------- the pace of the polls

\* What a schedule() of the Clock leaves alone besides the Clock's fields.
UnchangedByPace ==
  UNCHANGED <<paused, pendingResumes, ctxCalls, host, player, graph,
              sidechain, modulation, counter, motif, layer, swept,
              music, quit>>

\* Clock.start(): the closure of the new run executes schedule() for the
\* first time.
PacedStart ==
  /\ StartClock
  /\ polls' = [i \in 1..(Len(timers) + 1) |->
                 IF i = Len(timers) + 1 THEN [at |-> now, paced |-> TRUE]
                 ELSE polls[i]]
  /\ UnchangedByPace

\* setInterval(schedule, 25) of run c fires: the time since the run's
\* previous schedule() is the gap of the two polls.
PacedPoll(c) ==
  /\ PollClock(c)
  /\ polls' = [polls EXCEPT
                 ![c] = [at |-> now,
                         paced |-> @.paced /\ now - @.at <= Lookahead]]
  /\ UnchangedByPace

NextPaced ==
  \/ \E l \in Listeners : Subscribe(l)
  \/ \E b \in SetBpmArgs : SetBpm(b)
  \/ PacedStart
  \/ Stop
  \/ \E c \in 1..Len(timers) : PacedPoll(c)
  \/ \E d \in Steps : Advance(d)

SpecPaced == Init /\ [][NextPaced]_vars

\* ------------------------------------------------- re-entrant listeners

\* What the onTick of a listener object does besides receiving the tick: the
\* listeners 4..7 call back into the Clock, or fail, from inside the
\* callback; every other listener only receives.
Reaction(l) ==
  IF l = 4 THEN "unsubscribe"      \* clock.unsubscribe(this)
  ELSE IF l = 5 THEN "subscribe"   \* clock.subscribe(NewListener)
  ELSE IF l = 6 THEN "stop"        \* clock.stop()
  ELSE IF l = 7 THEN "throw"       \* a node creation or scheduling error
  ELSE "none"

Reactors == {4, 5, 6, 7}
\* The places of the list that calls from outside the callbacks fill.
Places == {1, 2, 3}
\* The listener that listener 5 subscribes.
NewListener == 1

\* The Clock as schedule() and the calls made from inside the callbacks see
\* and change it while schedule() runs: the list, the timers, intervalId;
\* with it the log, the pass counter, the last tick whose forEach has
\* returned (pos, -1 if none) and whether a callback has thrown.
ClockNow(lst, tms, iid, lg, pass) ==
  [lst |-> lst, tms |-> tms, iid |-> iid, log |-> lg, pass |-> pass,
   regs |-> regs, unsub |-> unsubscribed, stopped |-> stopCalled,
   pos |-> -1, thrown |-> FALSE]

\* A call or an event of the listener in position slot is written to the log.
Noted(st, sub, slot, kind, n, tick, ts, run) ==
  [st EXCEPT !.log = Append(@, [l |-> sub.id, reg |-> sub.reg, slot |-> slot,
                                kind |-> kind, n |-> n, time |-> ts,
                                tick |-> tick, pass |-> st.pass,
                                run |-> run])]

\* The body of the listener's onTick: its call into the Clock (unsubscribe,
\* subscribe and stop as the Clock's methods do them), or its failure.
React(st, sub, slot, tick, ts, run) ==
  LET what == Reaction(sub.id)
  IN IF what = "unsubscribe"
     THEN [Noted(st, sub, slot, what, 0, tick, ts, run) EXCEPT
             !.lst = IF IndexOf(@, sub.id) > 0
                     THEN Spliced(@, IndexOf(@, sub.id)) ELSE @,
             !.unsub = @ \cup {sub.id}]
     ELSE IF what = "subscribe"
     THEN [Noted(st, sub, slot, what, st.regs + 1, tick, ts, run) EXCEPT
             !.lst = Pushed(@, NewListener, st.regs + 1),
             !.regs = @ + 1,
             !.unsub = @ \ {NewListener}]
     ELSE IF what = "stop"
     THEN [Noted(st, sub, slot, what, 0, tick, ts, run) EXCEPT
             !.tms = IF st.iid # 0
                     THEN [@ EXCEPT ![st.iid].active = FALSE] ELSE @,
             !.iid = 0,
             !.stopped = TRUE]
     ELSE IF what = "throw"
     THEN [Noted(st, sub, slot, what, 0, tick, ts, run) EXCEPT
             !.thrown = TRUE]
     ELSE st

\* The callback of forEach for the element sub found in position slot:
\* l.onTick?.(..), which may call back or throw, then l.onBeat?.(..),
\* l.onBar?.(..), l.onPhrase?.(..) on the same object.
CallListener(st, sub, slot, tick, ts, run) ==
  LET s1 == IF "onTick" \in Hooks(sub.id)
            THEN React(Noted(st, sub, slot, "onTick", tick, tick, ts, run),
                       sub, slot, tick, ts, run)
            ELSE st
  IN IF s1.thrown THEN s1
     ELSE [s1 EXCEPT !.log = @ \o SeqMapCalls(CallPlan(tick), 2, sub, slot,
                                              tick, ts,
                                              [pass |-> s1.pass, run |-> run])]

\* this.listeners.forEach(..) while the callbacks may change the list:
\* forEach reads the length once (len), then visits the positions k..len in
\* order, taking what it finds in position k at that moment and passing over
\* a position the list no longer has; an exception ends it.
RECURSIVE ForEach(_, _, _, _, _, _)
ForEach(st, k, len, tick, ts, run) ==
  IF k > len \/ st.thrown THEN st
  ELSE IF k > Len(st.lst) THEN ForEach(st, k + 1, len, tick, ts, run)
  ELSE ForEach(CallListener(st, st.lst[k], k, tick, ts, run),
               k + 1, len, tick, ts, run)

\* The loop of schedule() over the ticks tick..target: targetTick and
\* tickTime were computed before the loop; the position is written after each
\* forEach that returns; an exception leaves the loop.
RECURSIVE TickLoop(_, _, _, _, _, _)
TickLoop(st, tick, target, start, tickTime, run) ==
  IF tick > target \/ st.thrown THEN st
  ELSE LET s0 == [st EXCEPT !.pass = @ + 1]
           s1 == ForEach(s0, 1, Len(s0.lst), tick,
                         TickStartTime(start, tick, tickTime), run)
       IN TickLoop(IF s1.thrown THEN s1 ELSE [s1 EXCEPT !.pos = tick],
                   tick + 1, target, start, tickTime, run)

\* One execution of schedule() of run `run` from the Clock st, with
\* lastScheduledTick = last.  An exception passes lastScheduledTick =
\* targetTick by, and goes to the host (to the caller of start(), or to the
\* timer's dispatcher): the host either lives on with its timers or ends
\* with all of them.
ScheduleReentrant(st, run, last, start, fresh) ==
  LET tickTime == TickDuration(bpm)
      target == TargetTick(now, start, tickTime)
      s1 == TickLoop(st, last + 1, target, start, tickTime, run)
  IN /\ log' = s1.log
     /\ passes' = s1.pass
     /\ listeners' = s1.lst
     /\ regs' = s1.regs
     /\ unsubscribed' = s1.unsub
     /\ intervalId' = s1.iid
     /\ stopCalled' = s1.stopped
     /\ \E survives \in (IF s1.thrown THEN BOOLEAN ELSE {TRUE}) :
          timers' = [i \in 1..Len(s1.tms) |->
                       [active |-> s1.tms[i].active /\ survives,
                        last |-> IF i = run /\ ~s1.thrown THEN target
                                 ELSE s1.tms[i].last]]
     /\ IF s1.pos >= 0
        THEN /\ currentTick' = s1.pos
             /\ currentBeat' = BeatOf(s1.pos)
             /\ currentBar' = BarOf(s1.pos)
             /\ currentPhrase' = PhraseOf(s1.pos)
        ELSE /\ currentTick' = (IF fresh THEN 0 ELSE currentTick)
             /\ currentBeat' = (IF fresh THEN 0 ELSE currentBeat)
             /\ currentBar' = (IF fresh THEN 0 ELSE currentBar)
             /\ currentPhrase' = (IF fresh THEN 0 ELSE currentPhrase)

\* Clock.start() with listeners that call back: the timer is created and
\* stored in intervalId before schedule() runs.
StartReentrant ==
  /\ Call
  /\ Len(timers) + 1 \in Runs
  /\ startTime' = now
  /\ ScheduleReentrant(
       [ClockNow(listeners,
                 Append(timers, [active |-> TRUE, last |-> -1]),
                 Len(timers) + 1, <<>>, 0) EXCEPT !.stopped = FALSE],
       Len(timers) + 1, -1, now, TRUE)
  /\ tempoChanged' = FALSE
  /\ regsAtStart' = regs
  /\ UNCHANGED <<bpm, now, lastSetBpm, nAdvances, engine>>

\* The host timer of run c fires, with listeners that call back.
PollReentrant(c) ==
  /\ timers[c].active
  /\ Cardinality({i \in 1..Len(log) : log[i].kind = "throw"}) <= MaxThrows
  /\ ScheduleReentrant(ClockNow(listeners, timers, intervalId, log, passes),
                       c, timers[c].last, startTime, FALSE)
  /\ UNCHANGED <<bpm, startTime, now, lastSetBpm, history, calls,
                 nAdvances, engine>>

\* Clock.subscribe(listener) of a listener that may call back.
SubscribeReactor(l) ==
  /\ Len(listeners) + 1 \in Places
  /\ Subscribe(l)

NextReentrant ==
  \/ \E l \in {NewListener} \cup Reactors : SubscribeReactor(l)
  \/ StartReentrant
  \/ \E c \in 1..Len(timers) : PollReentrant(c)
  \/ \E d \in Steps : Advance(d)

SpecReentrant == Init /\ [][NextReentrant]_vars

\* ---------------------------------------------------------------- claims

\* The callbacks the step delivers.
NewCalls ==
  IF Len(timers') > Len(timers) THEN log'
  ELSE SubSeq(log', Len(log) + 1, Len(log'))

\* No timer of an earlier run is still running.
SingleTimer == \A i \in 1..(Len(timers) - 1) : ~timers[i].active

\* The ticks onTick has announced to the subscription with stamp r since the
\* latest start(), in delivery order.
TicksTo(r) ==
  LET sel == SelectSeq(log, LAMBDA e : e.reg = r /\ e.kind = "onTick")
  IN [i \in 1..Len(sel) |-> sel[i].tick]

Subscribed(r) == \E i \in 1..Len(listeners) : listeners[i].reg = r
ListenerOf(r) ==
  listeners[CHOOSE i \in 1..Len(listeners) : listeners[i].reg = r].id

\* C1: once stop() has been called, and until start() is called again, no
\* step delivers a callback, however far the time source and the host timer
\* move on.
C1_NoCallbackAfterStop ==
  [][(stopCalled /\ stopCalled') => log' = log]_vars

\* C2: within one run (its timer the only one running, bpm unchanged since
\* start()), the ticks announced to a subscription are consecutive and
\* increasing; they begin with 0 when it was subscribed before start() and
\* reach the current tick while it stays subscribed; and no callback of a tick
\* is delivered after a callback of a later tick.
C2_TicksInOrder ==
  (Len(timers) > 0 /\ SingleTimer /\ ~tempoChanged) =>
    /\ \A r \in 1..regs :
         LET ts == TicksTo(r)
         IN /\ \A i \in 1..Len(ts) : ts[i] = ts[1] + (i - 1)
            /\ (r <= regsAtStart /\ Len(ts) > 0) => ts[1] = 0
            /\ (r <= regsAtStart /\ Subscribed(r)
                  /\ "onTick" \in Hooks(ListenerOf(r)))
                 => Len(ts) = currentTick + 1
    /\ \A i, j \in 1..Len(log) : i < j => log[i].tick <= log[j].tick

\* C2 witness: a run whose subscriber has been announced ticks 0..3 and more
\* by polls after start().
C2_Witness ==
  /\ Len(timers) > 0 /\ SingleTimer /\ ~tempoChanged
  /\ now > startTime
  /\ \E r \in 1..regsAtStart : Subscribed(r) /\ Len(TicksTo(r)) >= 4

\* C3: every callback a step delivers for tick N carries the timestamp
\* startTime + N * tickDuration, whatever the time of the poll.
C3_TimestampFromStart ==
  [][\A i \in 1..Len(NewCalls) :
       NewCalls[i].time =
         startTime' + NewCalls[i].tick
                        * ((60 * UnitsPerSecond) \div (bpm' * ticksPerBeat))]_vars

\* C3 witness: a tick was announced before its time (its timestamp is still
\* ahead of the time source) and the time source is past an earlier tick.
C3_Witness ==
  /\ \E i \in 1..Len(log) : log[i].tick >= 2 /\ log[i].time > now
  /\ \E i \in 1..Len(log) : log[i].tick >= 1 /\ log[i].time < now

FiftyMs == (50 * UnitsPerSecond) \div 1000

\* The callbacks with the given stamp, hook and tick in the log.
CallsOf(r, k, t) ==
  {i \in 1..Len(log) : log[i].reg = r /\ log[i].kind = k /\ log[i].tick = t}
CountOf(r, k) ==
  Cardinality({i \in 1..Len(log) : log[i].reg = r /\ log[i].kind = k})

\* C4: start() fires tick 0 first and to every subscriber: each hook of it
\* is called once for tick 0, with argument 0 and the recorded start time;
\* at 120 bpm, while at most 50 ms have elapsed, onTick has fired and onBeat,
\* onBar and onPhrase have fired exactly once.
C4_FirstTick ==
  Len(timers) > 0 =>
    /\ \A i \in 1..Len(log) :
         log[i].tick = 0 => \A j \in 1..i : log[j].tick = 0
    /\ \A r \in 1..regsAtStart :
         Subscribed(r) =>
           \A k \in Hooks(ListenerOf(r)) :
             /\ Cardinality(CallsOf(r, k, 0)) = 1
             /\ \A i \in CallsOf(r, k, 0) :
                  log[i].n = 0 /\ log[i].time = startTime
    /\ (bpm = 120 /\ ~tempoChanged /\ now - startTime <= FiftyMs) =>
         \A r \in 1..regsAtStart :
           Subscribed(r) =>
             /\ "onTick" \in Hooks(ListenerOf(r)) => CountOf(r, "onTick") >= 1
             /\ \A k \in Hooks(ListenerOf(r)) \ {"onTick"} : CountOf(r, k) = 1

\* C4 witness: 50 ms into a run at 120 bpm, a subscriber with all four hooks
\* has been announced ticks 0, 1 and 2.
C4_Witness ==
  /\ Len(timers) > 0 /\ bpm = 120 /\ ~tempoChanged
  /\ now - startTime = FiftyMs
  /\ \E r \in 1..regsAtStart :
       /\ Subscribed(r) /\ Hooks(ListenerOf(r)) = AllHooks
       /\ CountOf(r, "onTick") = 3

\* C5: onTick(t) for every fired tick t; onBeat iff t mod 4 = 0, with t/4;
\* onBar iff t mod 16 = 0, with t/16; onPhrase iff t mod 64 = 0, with t/64.
\* (The divisor of each hook, then: every delivered callback is due and has
\* the right argument; a subscription that gets onTick for a tick gets each
\* other hook that is due in the same pass; and in a run of one timer and one
\* tempo a subscription made before start() gets every due callback of every
\* tick up to the current one.)
Every(k) ==
  IF k = "onTick" THEN 1
  ELSE IF k = "onBeat" THEN 4
  ELSE IF k = "onBar" THEN 16
  ELSE 64

C5_Boundaries ==
  /\ \A i \in 1..Len(log) :
       /\ log[i].tick % Every(log[i].kind) = 0
       /\ log[i].n = log[i].tick \div Every(log[i].kind)
  /\ \A i \in 1..Len(log) :
       log[i].kind = "onTick" =>
         \A k \in Hooks(log[i].l) :
           log[i].tick % Every(k) = 0 =>
             \E j \in i..Min(Len(log), i + 3) :
               /\ log[j].kind = k /\ log[j].pass = log[i].pass
               /\ log[j].slot = log[i].slot
  /\ (Len(timers) > 0 /\ SingleTimer /\ ~tempoChanged) =>
       \A r \in 1..regsAtStart :
         Subscribed(r) =>
           \A k \in Hooks(ListenerOf(r)) :
             CountOf(r, k) = (currentTick \div Every(k)) + 1

\* C5 witness: a run has passed tick 64: a subscriber was called onPhrase(1)
\* at tick 64 and onBar(3) at tick 48.
C5_Witness ==
  /\ \E i \in 1..Len(log) :
       log[i].kind = "onPhrase" /\ log[i].tick = 64 /\ log[i].n = 1
  /\ \E i \in 1..Len(log) :
       log[i].kind = "onBar" /\ log[i].tick = 48 /\ log[i].n = 3
  /\ \E i \in 1..Len(log) : log[i].kind = "onBeat" /\ log[i].tick = 4

\* The place of a hook in the order onTick, onBeat, onBar, onPhrase.
Rank(k) ==
  IF k = "onTick" THEN 1
  ELSE IF k = "onBeat" THEN 2
  ELSE IF k = "onBar" THEN 3
  ELSE 4

\* C6 as stated: the callbacks one listener object receives in one pass are
\* in the order onTick, onBeat, onBar, onPhrase and carry one timestamp.
C6_PerListenerOrder ==
  \A i, j \in 1..Len(log) :
    (i < j /\ log[i].pass = log[j].pass /\ log[i].l = log[j].l) =>
      /\ Rank(log[i].kind) < Rank(log[j].kind)
      /\ log[i].time = log[j].time

\* C6 amended: the callbacks one subscription of a listener receives in one
\* pass are in the order onTick, onBeat, onBar, onPhrase and carry one
\* timestamp (a listener subscribed twice receives the group twice).
C6_PerSubscriptionOrder ==
  \A i, j \in 1..Len(log) :
    (i < j /\ log[i].pass = log[j].pass /\ log[i].reg = log[j].reg) =>
      /\ Rank(log[i].kind) < Rank(log[j].kind)
      /\ log[i].time = log[j].time

\* C6 witness: a listener with all four hooks got all four for tick 0 and,
\* subscribed a second time, got them again in the same pass.
C6_Witness ==
  \E i, j \in 1..Len(log) :
    /\ i + 4 = j /\ log[i].pass = log[j].pass /\ log[i].l = log[j].l
    /\ log[i].reg # log[j].reg
    /\ log[i].kind = "onTick" /\ log[j].kind = "onTick"
    /\ log[i + 3].kind = "onPhrase" /\ log[i + 3].reg = log[i].reg

\* C7 as stated: within one pass no callback of an earlier hook follows a
\* callback of a later hook, whichever subscribers receive them.
C7_HookMajorOrder ==
  \A i, j \in 1..Len(log) :
    (i < j /\ log[i].pass = log[j].pass) =>
      /\ Rank(log[i].kind) <= Rank(log[j].kind)
      /\ log[i].time = log[j].time

\* C7 amended: within one pass the callbacks are delivered subscriber by
\* subscriber in list order, for each subscriber in the order onTick, onBeat,
\* onBar, onPhrase, all with one timestamp; a later subscriber's onTick
\* follows an earlier subscriber's onBeat, onBar and onPhrase.
C7_SubscriberMajorOrder ==
  \A i, j \in 1..Len(log) :
    (i < j /\ log[i].pass = log[j].pass) =>
      /\ \/ log[i].slot < log[j].slot
         \/ log[i].slot = log[j].slot /\ Rank(log[i].kind) < Rank(log[j].kind)
      /\ log[i].time = log[j].time

\* C7 witness: in one pass the second subscriber's onTick came after the
\* first subscriber's onBeat.
C7_Witness ==
  \E i, j \in 1..Len(log) :
    /\ i < j /\ log[i].pass = log[j].pass
    /\ log[i].slot = 1 /\ log[j].slot = 2
    /\ log[i].kind = "onBeat" /\ log[j].kind = "onTick"

\* C8: of two subscriptions in the list, the one registered first is called
\* first: in every pass its onTick precedes the other's onTick, and so for
\* onBeat, onBar and onPhrase, both with the same timestamp.
C8_RegistrationOrder ==
  \A i, j \in 1..Len(log) :
    (log[i].pass = log[j].pass /\ log[i].kind = log[j].kind
       /\ log[i].reg < log[j].reg) =>
      i < j /\ log[i].time = log[j].time

\* C8 witness: two different listeners, registered one after the other, were
\* both called onBeat in a pass after the first.
C8_Witness ==
  \E i, j \in 1..Len(log) :
    /\ log[i].pass = log[j].pass /\ log[i].pass > 1
    /\ log[i].kind = "onBeat" /\ log[j].kind = "onBeat"
    /\ log[i].l # log[j].l /\ log[i].reg < log[j].reg

\* C9: after setBpm(b), getBpm() is max(60, min(140, b)); setBpm(30) gives
\* 60 and setBpm(200) gives 140.
C9_SetBpmClamps ==
  lastSetBpm # 0 =>
    /\ GetBpm = (IF lastSetBpm < 60 THEN 60
                 ELSE IF lastSetBpm > 140 THEN 140
                 ELSE lastSetBpm)
    /\ lastSetBpm = 30 => GetBpm = 60
    /\ lastSetBpm = 200 => GetBpm = 140

\* C9 witness: setBpm(200) was called on a running Clock.
C9_Witness == lastSetBpm = 200 /\ GetBpm = 140 /\ intervalId # 0

\* C10: in every state of a Clock the bpm lies in [60,140].
C10_BpmInRange == bpm >= 60 /\ bpm <= 140

\* C11: for the Clock's bpm in [60,140], tickDuration = 60/bpm/4, beatDuration
\* = 60/bpm and barDuration = 4*60/bpm, hence barDuration = 16 * tickDuration;
\* at 120 bpm they are 1/8 s, 1/2 s and 2 s.
C11_Durations ==
  (bpm >= 60 /\ bpm <= 140) =>
    /\ TickDuration(bpm) * bpm * 4 = 60 * UnitsPerSecond
    /\ BeatDuration(bpm) * bpm = 60 * UnitsPerSecond
    /\ BarDuration(bpm) * bpm = 4 * 60 * UnitsPerSecond
    /\ BarDuration(bpm) = 16 * TickDuration(bpm)
    /\ bpm = 120 =>
         /\ 8 * TickDuration(bpm) = UnitsPerSecond
         /\ 2 * BeatDuration(bpm) = UnitsPerSecond
         /\ BarDuration(bpm) = 2 * UnitsPerSecond

\* C11 witness: setBpm(100) has set a tempo other than that of the
\* constructor; the bar lasts 2.4 s.
C11_Witness ==
  /\ lastSetBpm = 100 /\ bpm = 100
  /\ 10 * BarDuration(bpm) = 24 * UnitsPerSecond

\* C12: in a run whose timer is the only one running, whatever setBpm has
\* done to the tempo, the ticks announced to a subscription are consecutive:
\* no tick is announced a second time and each announced tick is the
\* successor of the one announced before it.
C12_NoTickFiredAgain ==
  (Len(timers) > 0 /\ SingleTimer) =>
    \A r \in 1..regs :
      \A i \in 2..Len(TicksTo(r)) : TicksTo(r)[i] = TicksTo(r)[i - 1] + 1

\* C13: once unsubscribe(l) has returned (and subscribe(l) has not been
\* called since), no step delivers a callback to l, however often l had been
\* subscribed before.
C13_NoCallbackAfterUnsubscribe ==
  [][\A i \in 1..Len(NewCalls) : NewCalls[i].l \notin unsubscribed]_vars

\* The events of the given kind in the log.
Events(kind) == {i \in 1..Len(log) : log[i].kind = kind}
\* How often onTick was called on the subscription with stamp r in pass p.
TicksInPass(r, p) ==
  Cardinality({j \in Events("onTick") : log[j].reg = r /\ log[j].pass = p})

\* C14: a listener subscribed from inside a callback of a pass receives no
\* callback in that pass.
C14_NoCallbackInPassOfSubscription ==
  \A i \in Events("subscribe") :
    \A j \in 1..Len(log) :
      (log[j].kind \in AllHooks /\ log[j].reg = log[i].n)
        => log[j].pass # log[i].pass

\* C15: when a listener unsubscribes from inside a callback of a pass (and no
\* callback throws), every subscription made before start() that is still
\* in the list was called onTick exactly once in that pass.
C15_OthersStillCalledOnce ==
  Events("throw") = {} =>
    \A i \in Events("unsubscribe") :
      \A r \in 1..regsAtStart :
        Subscribed(r) => TicksInPass(r, log[i].pass) = 1

\* C16: in a Clock started once, after a callback has called stop() no
\* callback is delivered: not in the rest of the pass, not for the further
\* ticks of the poll.
C16_NoCallbackAfterStopInCallback ==
  Len(timers) = 1 =>
    \A i \in Events("stop") :
      \A j \in (i + 1)..Len(log) : log[j].kind \notin AllHooks

\* C18: when a callback throws in the pass of tick N (no callback
\* unsubscribes, the Clock was started once), every subscription made before
\* start() is called onTick for tick N exactly once.
C18_FailureIsLocal ==
  (Len(timers) = 1 /\ Events("unsubscribe") = {}) =>
    \A i \in Events("throw") :
      \A r \in 1..regsAtStart :
        Subscribed(r) =>
          Cardinality({j \in Events("onTick") :
                         log[j].reg = r /\ log[j].tick = log[i].tick}) = 1

\* What the Clock holds and what it has delivered.
clockState ==
  <<bpm, startTime, position, listeners, intervalId, timers, log, passes>>

\* C17: stop() delivers nothing and leaves no timer in intervalId; on a Clock
\* without a timer in intervalId (never started, or stopped already) it
\* changes nothing, so stop();stop() leaves the state of stop(); and a
\* start() after stop() runs from tick 0: it records the start time, has a
\* running timer, calls every subscriber for tick 0 first and has fired the
\* ticks up to the lookahead.
C17_StopIdempotent ==
  [][/\ Stop => (log' = log /\ intervalId' = 0
                   /\ UNCHANGED <<bpm, startTime, position, listeners>>)
     /\ (Stop /\ intervalId = 0) => UNCHANGED clockState
     /\ (Start /\ stopCalled) =>
          /\ startTime' = now
          /\ intervalId' # 0 /\ timers'[intervalId'].active
          /\ currentTick' = Lookahead \div TickDuration(bpm)
          /\ timers'[intervalId'].last = currentTick'
          /\ \A i \in 1..Len(log') : log'[i].tick = 0 =>
               \A j \in 1..i : log'[j].tick = 0
          /\ \A k \in 1..Len(listeners) :
               "onTick" \in Hooks(listeners[k].id) =>
                 \E i \in 1..Len(log') :
                   /\ log'[i].reg = listeners[k].reg
                   /\ log'[i].kind = "onTick" /\ log'[i].tick = 0]_vars

\* C17 witness: stop() was called on a Clock that has a subscriber and was
\* never started.
C17_Witness ==
  /\ stopCalled /\ Len(timers) = 0 /\ Len(listeners) > 0
  /\ position = <<0, 0, 0, 0>>

\* C19: within a run (no start() in the step, no timer of an earlier run
\* running) getPosition() is consistent after every step (beat = tick div 4,
\* bar = beat div 4, phrase = bar div 4) and none of tick, beat, bar, phrase
\* decreases in a step, whatever setBpm has done.
C19_PositionConsistentMonotone ==
  [][(Len(timers') = Len(timers) /\ SingleTimer) =>
       /\ GetPosition'.beat = GetPosition'.tick \div 4
       /\ GetPosition'.bar = GetPosition'.beat \div 4
       /\ GetPosition'.phrase = GetPosition'.bar \div 4
       /\ GetPosition'.tick >= GetPosition.tick
       /\ GetPosition'.beat >= GetPosition.beat
       /\ GetPosition'.bar >= GetPosition.bar
       /\ GetPosition'.phrase >= GetPosition.phrase]_vars

\* C20: pause() on a paused Engine and resume() on an Engine that is not
\* paused change nothing of the Engine, call neither the Clock nor the audio
\* context and deliver nothing; pause() otherwise sets paused, resume()
\* otherwise clears it, and nothing else changes paused.
C20_PauseResumeIdempotent ==
  [][/\ (Pause /\ paused) => UNCHANGED <<clockState, engine, stopCalled>>
     /\ (Resume /\ ~paused) => UNCHANGED <<clockState, engine, stopCalled>>
     /\ (Pause /\ ~paused) =>
          (paused' /\ ctxCalls' = Append(ctxCalls, "suspend"))
     /\ (Resume /\ paused) =>
          (~paused' /\ ctxCalls' = Append(ctxCalls, "resume"))
     /\ (paused' # paused) => (Pause \/ Resume)]_vars

\* C20 witness: of three calls on an Engine that was started once and has no
\* layer, one was a pause() that found the Engine paused: there is one
\* suspend and the Engine is paused.
C20_Witness ==
  /\ calls = 3 /\ regs = 0 /\ Len(timers) = 1
  /\ paused /\ ctxCalls = <<"suspend">>

\* No timer of the Clock is running.
ClockIdle == \A i \in 1..Len(timers) : ~timers[i].active

\* C21: while the Engine is paused no timer of its Clock is running and no
\* callback is delivered, whatever the order of pause(), resume() and the
\* settling of the resume requests: a step other than Engine.start() that
\* ends with the Engine paused, taken with the Clock idle or by pause() on a
\* Clock with one running timer, leaves the Clock idle and delivers nothing.
C21_NoEventsWhilePaused ==
  [][(/\ paused' /\ ~EngineStart
      /\ ClockIdle \/ (~paused /\ SingleTimer)) =>
       /\ NewCalls = <<>>
       /\ ClockIdle']_vars

\* C22: no rejection of a suspend or resume request is left unhandled; an
\* effective pause() stops the Clock at once (before the suspend request
\* settles), and the settling of a suspend request, fulfilled or rejected,
\* changes nothing of the Clock; the settling of a resume request, fulfilled
\* or rejected, starts the Clock; and every resume request is followed by a
\* start of the Clock.
C22_BestEffort ==
  /\ [](unhandled = 0)
  /\ [][/\ (Pause /\ ~paused /\ SingleTimer) =>
             (ClockIdle' /\ intervalId' = 0)
        /\ \A ok \in BOOLEAN :
             SuspendSettled(ok) => UNCHANGED <<clockState, paused>>
        /\ \A ok \in BOOLEAN :
             ResumeSettledWith(ok) =>
               (intervalId' # 0 /\ timers'[intervalId'].active)]_vars
  /\ \A n \in {0} \cup Runs :
       (pendingResumes > 0 /\ Len(timers) = n) ~> (Len(timers) > n)

\* C22 witness: a suspend request and a resume request were both rejected,
\* and the Clock, stopped by pause(), is running again.
C22_Witness ==
  /\ \E i \in 1..Len(settled) : settled[i] = [req |-> "suspend", ok |-> FALSE]
  /\ \E i \in 1..Len(settled) : settled[i] = [req |-> "resume", ok |-> FALSE]
  /\ Len(timers) = 2 /\ ~timers[1].active /\ timers[2].active

\* C23: once Engine.stop() has returned and the Clock is idle, no step other
\* than a new Engine.start() delivers a callback or leaves a timer of the
\* Clock running, whenever the pending resume requests settle.
C23_NoEventsAfterEngineStop ==
  [][(engineStopped /\ ClockIdle /\ ~EngineStart) =>
       /\ NewCalls = <<>>
       /\ ClockIdle']_vars

\* The Clocks that have a timer running: the current Engine's and those of
\* the earlier tracks' Engines.
RunningClocks ==
  (IF ClockIdle THEN 0 ELSE 1)
  + Cardinality({i \in 1..Len(retired) : retired[i].running})

\* When the next track was constructed, the layers and the Engine of the
\* track before had been stopped and the close of its context invoked.
StoppedBeforeNext ==
  \A i \in 1..Len(retired) :
    retired[i].stopped /\ retired[i].layersStopped /\ retired[i].closed

\* C24: tracks never overlap: the next track is constructed only after the
\* layers and the Engine of the previous one were stopped and its context's
\* close was invoked, and at no time do two Engines have a running Clock.
C24_TracksNeverOverlap ==
  /\ StoppedBeforeNext
  /\ RunningClocks <= 1

\* The nodes a signal entering at node n can reach, and those it can reach
\* without passing through the sidechain gain.
Reaches(n) == Beyond({n}, edges, {})
Bypassing(n) == Beyond({n}, edges, {"sidechainGain"})

\* C25: every path from the main bus to the destination passes through the
\* sidechain gain, the paths through the reverb send and return included
\* (and there is such a path, also through the reverb); no path from the
\* drum bus to the destination passes through the sidechain gain (and there
\* is a path).  The same holds for what the layers connect to the two buses.
C25_Routing ==
  /\ "destination" \in Reaches(GetMainBus)
  /\ "destination" \notin Bypassing(GetMainBus)
  /\ "reverbReturn" \in Bypassing(GetMainBus)
  /\ "destination" \in Reaches("reverbReturn")
  /\ "destination" \in Reaches(GetDrumBus)
  /\ GetDrumBus # "sidechainGain"
  /\ "sidechainGain" \notin Reaches(GetDrumBus)
  /\ \A n \in LayerNodes :
       /\ (<<n, GetDrumBus>> \notin edges) => "destination" \notin Bypassing(n)
       /\ (<<n, GetMainBus>> \notin edges) => "sidechainGain" \notin Reaches(n)

C25_Witness ==
  /\ <<"pad", GetMainBus>> \in edges
  /\ <<"pad", GetDrumBus>> \notin edges
  /\ <<"beat", GetDrumBus>> \in edges
  /\ <<"beat", GetMainBus>> \notin edges
  /\ "destination" \in Reaches("pad") \cap Reaches("beat")

\* Two fractions that are the same number.
SameValue(a, b) == a[1] * b[2] = b[1] * a[2]

\* C26: triggerSidechain called at t and then at t + 0.01: the later call's
\* ramp takes precedence: after t + 0.01 the gain is that of the later
\* call's envelope, and no automation event of the earlier call determines
\* it.
C26_LastWriteWins ==
  (Len(triggers) = 2 /\ triggers[2] = triggers[1] + 10) =>
    \A x \in (triggers[2] + 1)..(triggers[2] + 2 * duckReleaseMs) :
      /\ SameValue(GainAt(automation, x),
                   GainAt(Triggered(<<>>, triggers[2], 2), x))
      /\ 1 \notin Governing(automation, x)

\* The fraction v lies between lo and hi (whole numbers).
Within(v, lo, hi) == lo * v[2] <= v[1] /\ v[1] <= hi * v[2]

\* C27: for a Modulator with base B and range R >= 0, getValue(t) lies in
\* [B - R, B + R] and getNormalized(t) in [0, 1] for every t, with the base
\* and the range as they are at the query, whatever setBase, setRange and
\* setSpeed calls came before.
C27_ModulatorBounds ==
  [][\A i \in 1..Len(mods), t \in QueryTimes :
       /\ QueryValue(i, t) =>
            Within(<<answer'.num, answer'.den>>,
                   mods[i].base - mods[i].range, mods[i].base + mods[i].range)
       /\ QueryNormalized(i, t) =>
            Within(<<answer'.num, answer'.den>>, 0, 1)]_vars

C27_Witness ==
  /\ answer.op = "getValue"
  /\ mods[answer.mod].base = 200 /\ mods[answer.mod].range = 50
  /\ mods[answer.mod].speed = 2
  /\ answer.num = 150 * answer.den

\* C28: for a name that was never added, getValue(name, t) returns 0,
\* getNormalized(name, t) returns 0.5 and get(name) returns not found; none
\* of them throws and none changes the bank; for a name that was added,
\* get(name) returns the very Modulator that add returned.
C28_BankFailSoft ==
  [][\A n \in Names :
       /\ \A t \in QueryTimes :
            (BankGetValue(n, t) /\ returned[n] = 0) =>
              /\ answer'.num = 0 /\ ~answer'.threw
              /\ bank' = bank /\ mods' = mods
       /\ \A t \in QueryTimes :
            (BankGetNormalized(n, t) /\ returned[n] = 0) =>
              /\ 2 * answer'.num = answer'.den /\ ~answer'.threw
              /\ bank' = bank /\ mods' = mods
       /\ BankGet(n) =>
            /\ ~answer'.threw
            /\ bank' = bank /\ mods' = mods
            /\ answer'.found = (returned[n] # 0)
            /\ answer'.mod = returned[n]]_vars

C28_Witness ==
  /\ answer.op = "bank.getNormalized" /\ answer.name = "intensity"
  /\ ~answer.found /\ 2 * answer.num = answer.den
  /\ returned["filterMain"] = 2 /\ bank["intensity"] = 0

\* C29: after any sequence of create(n), cleanup(n) and reset(), getStats()
\* has active = created - cleaned and getActive() is that active value;
\* reset() sets the three counts to 0; active may be negative.
C29_CounterBalance ==
  /\ [](/\ GetStats.active = GetStats.created - GetStats.cleaned
        /\ GetActive = GetStats.active)
  /\ [][NodeReset =>
          GetStats' = [created |-> 0, cleaned |-> 0, active |-> 0]]_vars

C29_Witness ==
  /\ nodeCreated = 1 /\ nodeCleaned = 4 /\ GetActive = -3

\* Every note counts three nodes and sets exactly one cleanup timeout; the
\* timeout, when it fires, subtracts three and leaves no connection from
\* the note's three nodes.
NotesPaired ==
  [][/\ (notes'.played > notes.played) =>
          /\ nodeActive' = nodeActive + 3
          /\ Cardinality(cleanups' \ cleanups) = 1
          /\ \A c \in cleanups' \ cleanups : c.note = notes'.played
     /\ \A c \in cleanups :
          (c \notin cleanups') =>
            /\ nodeActive' = nodeActive - 3
            /\ cleanups' = cleanups \ {c}
            /\ \A e \in edges' : e[1] \notin NoteNodes(c.note)]_vars

\* No Clock runs and no cleanup is pending: the count is back to 0.
BalancedWhenIdle ==
  (RunningClocks = 0 /\ cleanups = {}) => GetActive = 0

\* C30: no node leak in MotifLayer: every note adds 3 to the node counter
\* and registers exactly one cleanup that subtracts 3 and disconnects the
\* same three nodes; once the Clock is stopped and the pending cleanups
\* have fired the active count is back to 0; and this is so when the next
\* track is constructed, 2.5 s after the stop.
C30_NoNodeLeak ==
  /\ NotesPaired
  /\ []BalancedWhenIdle
  /\ [][(Len(retired') > Len(retired)) =>
          (cleanups = {} /\ GetActive = 0)]_vars

\* A cleanup that ran as late as its note's end.
InTime == \E c \in swept : c.at >= c.end

\* C31: the cleanup of a note never runs before the note's end on the audio
\* time line: every cleanup that has run, ran at an audio time of at least
\* the note's timestamp plus noteDuration plus release, whatever headroom
\* the tick was announced with and also when the Engine was paused in
\* between.
C31_CleanupAfterNoteEnd == \A c \in swept : c.at >= c.end

\* The root and the scale are of the curated tables.
Curated ==
  /\ \E r \in 1..Len(roots) : state.root = roots[r]
  /\ \E i \in 1..Len(goodScales) : state.scaleName = goodScales[i]

\* The step leaves root, scale, scaleName and notes as they are.
KeyKept ==
  /\ state'.root = state.root /\ state'.scale = state.scale
  /\ state'.scaleName = state.scaleName /\ state'.notes = state.notes

\* C32 as stated: the root and the scale are of the curated tables, and
\* after the constructor no step changes any field of Engine.state.
C32_StateImmutable == []Curated /\ [][state' = state]_vars

\* C32, amended: the root and the scale are of the curated tables and no
\* step changes root, scale, scaleName or notes; kitName is changed by
\* setKitName only and synthName by setSynthName only.
C32_KeyImmutable ==
  /\ []Curated
  /\ [][/\ KeyKept
        /\ state'.kitName # state.kitName =>
             \E name \in KitNames : SetKitName(name)
        /\ state'.synthName # state.synthName =>
             \E name \in SynthNames : SetSynthName(name)]_vars

\* Both names set on an Engine whose Clock has fired ticks, with the last
\* root and scale of the tables.
C32_Witness ==
  /\ state.kitName # "" /\ state.synthName # ""
  /\ passes > 0
  /\ state.root = roots[Len(roots)]
  /\ state.scaleName = goodScales[Len(goodScales)]

\* The callbacks a step delivers that were fired with less than the claimed
\* headroom: the timestamp is not after the time source's now, or, in a poll
\* of the timer, not more than lookahead minus the gap to the run's previous
\* poll ahead of it.
Late ==
  {i \in 1..Len(NewCalls) :
     \/ NewCalls[i].time <= now'
     \/ /\ Len(timers') = Len(timers)
        /\ NewCalls[i].time - now'
             <= Lookahead - (now' - polls[NewCalls[i].run].at)}

\* C33: every tick is announced at most the lookahead before its timestamp;
\* and in a run whose consecutive polls were never more than the lookahead
\* apart every tick is announced strictly before its timestamp, with a
\* headroom greater than the lookahead minus the gap of the polls.
C33_AnnouncedAhead ==
  [][/\ \A i \in 1..Len(NewCalls) : NewCalls[i].time - now' <= Lookahead
     /\ \A i \in 1..Len(NewCalls) :
          polls'[NewCalls[i].run].paced => i \notin Late]_vars

\* The poll timers that are running.
ActiveTimers == {i \in 1..Len(timers) : timers[i].active}

\* C34: after any sequence of start() and stop() calls at most one poll
\* timer is running, none after stop(), and (the tempo unchanged) no tick
\* has been announced twice to a subscription since the latest start().
C34_OnePollTimer ==
  /\ Cardinality(ActiveTimers) <= 1
  /\ stopCalled => ActiveTimers = {}
  /\ ~tempoChanged =>
       \A i, j \in 1..Len(log) :
         (/\ i < j
          /\ log[i].reg = log[j].reg
          /\ log[i].kind = "onTick" /\ log[j].kind = "onTick")
           => log[i].tick # log[j].tick

\* C35: within one run the timestamps of the ticks fired are strictly
\* increasing in firing order, also when setBpm changes the tempo between
\* the polls: of two onTick callbacks a run delivers to a subscription since
\* the latest start(), the later one carries the greater timestamp.
C35_TimestampsIncrease ==
  \A i, j \in 1..Len(log) :
    (/\ i < j
     /\ log[i].run = log[j].run /\ log[i].reg = log[j].reg
     /\ log[i].kind = "onTick" /\ log[j].kind = "onTick")
      => log[i].time < log[j].time

\* The onPhrase callbacks the step delivers to the layer.
PhrasesHeard ==
  Cardinality({i \in 1..Len(NewCalls) :
                 NewCalls[i].l = MotifListener /\ NewCalls[i].kind = "onPhrase"})

\* The step takes the layer's count of onPhrase calls to or past a multiple
\* of sectionLength.
SectionEnds ==
  (layer.phraseCount + PhrasesHeard) \div sectionLength
    > layer.phraseCount \div sectionLength

\* C36: the layer's Resting/Active state and its pattern change only in a
\* step that delivers an onPhrase call whose count is a multiple of
\* sectionLength; after a re-roll that yields Active, patternStartTick is
\* the Clock's tick of that onPhrase call, a phrase boundary; and a step
\* that finds the layer Resting and brings no such onPhrase call plays no
\* note and changes no field but lastTick and the count of phrases.
C36_ChangeOnlyAtSection ==
  [][layer.made =>
       /\ (layer'.isActive # layer.isActive \/ layer'.pattern # layer.pattern)
            => SectionEnds
       /\ layer'.patternStartTick # layer.patternStartTick => SectionEnds
       /\ layer'.phraseCount = layer.phraseCount + PhrasesHeard
       /\ (layer'.isActive /\ SectionEnds) =>
            /\ layer'.patternStartTick = layer'.boundary
            /\ layer'.boundary % (ticksPerBeat * beatsPerBar * barsPerPhrase) = 0
            /\ layer'.pattern \in 1..Len(MOTIF_PATTERNS)
       /\ (~layer.isActive /\ ~SectionEnds) =>
            /\ [layer' EXCEPT !.fresh = <<>>]
                 = [layer EXCEPT !.lastTick = layer'.lastTick,
                                 !.phraseCount = layer'.phraseCount,
                                 !.fresh = <<>>]
            /\ layer'.fresh \in {<<>>, layer.fresh}
            /\ cleanups' \subseteq cleanups]_vars

\* C36 witness: the layer is Active after the re-roll of its fourth onPhrase
\* call, at the Clock's tick 192, with the pattern starting there, and has
\* looked at a step of it since.
C36_Witness ==
  /\ layer.made /\ layer.isActive
  /\ layer.phraseCount = sectionLength /\ layer.rolls = 1
  /\ layer.patternStartTick = 192 /\ layer.lastTick > 192
  /\ layer.firstTick # -1

\* C37: when a re-roll at a phrase boundary yields Active, the first step of
\* the new pattern that onTick looks at is step 0, at the boundary tick
\* itself.
C37_FirstStepAtBoundary ==
  (layer.made /\ layer.isActive /\ layer.rolls > 0 /\ layer.firstTick # -1)
    => (layer.firstTick = layer.boundary /\ layer.firstStep = 0)

\* C38: in every state of a MotifLayer patternStartTick is at most the most
\* recent tick the layer has seen, also across Engine.pause() and
\* Engine.resume(), where the Clock counts from tick 0 again.
C38_PatternStartSeen ==
  layer.made => layer.patternStartTick <= layer.lastTick

\* The promises of stopLayers that handleNext() is waiting for.
Transitions ==
  Cardinality({i \in 1..Len(timeouts) : timeouts[i] = "resolve"})

\* C39: once isQuitting is set no step of the player creates an Engine and
\* layers (the Engines of the earlier tracks stay what they are in number,
\* no layer is registered with a Clock), also when quit is asked for during
\* a track change; and during a track change at most one
\* handleNext() is waiting and no pause or resume is issued.
C39_NoTrackAfterQuit ==
  /\ [](isTransitioning => Transitions = 1)
  /\ [][isQuitting =>
          /\ Len(retired') = Len(retired)
          /\ listeners' = listeners]_vars
  /\ [][(isTransitioning /\ isTransitioning') =>
          /\ Issued("suspend")' = Issued("suspend")
          /\ Issued("resume")' = Issued("resume")]_vars

====
